---- MODULE Spec2Model ----
(***************************************************************************)
(* Model of the mail phishing analyser (WhyYum/mpa).                       *)
(*                                                                         *)
(* Part 1: AnalysisResult (src/analyzer/analysis_result.py): the check     *)
(*         list, add_check, calculate_score and from_dict.                 *)
(* Part 2: EmailAnalyzer.analyze (src/analyzer/email_analyzer.py): the     *)
(*         extractor pipeline, the verdict and AnalysisLogger.save.        *)
(*                                                                         *)
(* Scores are Python floats in the source.  The model counts them in       *)
(* tenths of a point (10.0 is 100).  Every score Part 1 enumerates is a    *)
(* multiple of 0.5, which binary floating point represents and adds        *)
(* exactly, so the integer arithmetic of Part 1 is the arithmetic of the   *)
(* code.  Part 2 carries the extractors' own scores (0.2, 1.3, ...) in     *)
(* exact tenths; its properties are about control flow, not about sums.    *)
(***************************************************************************)
EXTENDS Integers, Sequences, FiniteSets, TLC

VARIABLES
  checks,        \* AnalysisResult.checks: sequence of CheckResult
  total_score,   \* AnalysisResult.total_score (tenths)
  risk_level,    \* AnalysisResult.risk_level
  is_spam,       \* AnalysisResult.is_spam
  is_phishing,   \* AnalysisResult.is_phishing
  calls,         \* history: calls of calculate_score since checks last changed
  fresh,         \* history: the object was built by the constructor defaults
  pc,            \* analyze: position of the call
  step,          \* analyze: index of the next extractor of the pipeline
  budget,        \* analyze: findings the message may still produce
  raised,        \* analyze: what raised ("" when nothing did)
  returned,      \* analyze: what the caller of analyze obtained
  log,           \* AnalysisLogger: documents written under logs_dir
  wmsg,          \* batch: the message each pool thread analyses
  wpc,           \* batch: position of each thread inside analyze
  wstep,         \* batch: index of each thread's next extractor
  wchecks,       \* batch: result.checks of each thread's AnalysisResult
  dnsCache,      \* DNSChecker._cache: the class-level cache, shared
  files,         \* logs_dir: the result files on disk
  now,           \* the clock, in seconds
  saved,         \* history: the (account, message_id) pairs save was called for
  load,          \* the last load_all call: its arguments and what it returned
  batch,         \* _check_worker: each submitted uid's process_email call
  checked_ids,   \* _check_worker: message ids already taken for analysis
  arg,           \* an extractor called on its own: the message fields it is given
  ret,           \* an extractor called on its own: what it returned
  inbox,         \* IMAP server: the message in the selected folder
  copied,        \* IMAP server: the spam folders holding a copy of the message
  move,          \* IMAPClient.move_to_spam: where the call is and what it returned
  cache_lock,    \* DNSCache.lock: the thread holding it, or "free"
  th,            \* DNSCache: each thread's call of get, set or clear
  clock,         \* time.time(), in seconds
  is_checking,   \* MainWindow.is_checking
  threads,       \* the _check_worker threads alive
  run            \* _check_worker: where the thread is in its loop over the accounts

resultVars == <<checks, total_score, risk_level, is_spam, is_phishing, calls, fresh>>
analyzeVars == <<pc, step, budget, raised, returned, log>>
workerVars == <<wmsg, wpc, wstep, wchecks, dnsCache>>
logVars == <<files, now, saved, load>>
batchVars == <<batch, checked_ids>>
callVars == <<arg, ret>>
imapVars == <<inbox, copied, move>>
cacheVars == <<cache_lock, th, clock>>
runVars == <<is_checking, threads, run>>
extraVars == <<imapVars, cacheVars, runVars>>
restVars == <<workerVars, logVars, batchVars, callVars, extraVars>>
vars == <<checks, total_score, risk_level, is_spam, is_phishing, calls, fresh,
          pc, step, budget, raised, returned, log,
          wmsg, wpc, wstep, wchecks, dnsCache,
          files, now, saved, load, batch, checked_ids, arg, ret,
          inbox, copied, move, cache_lock, th, clock, is_checking, threads, run>>

Min(a, b) == IF a < b THEN a ELSE b
Max(a, b) == IF a > b THEN a ELSE b
Abs(a) == IF a < 0 THEN -a ELSE a

(***************************************************************************)
(* Bounds of the model.                                                    *)
(***************************************************************************)
MaxChecks == 5
MaxCalls == 2
MaxDocChecks == 1
MaxFindings == 2
MaxFiles == 3
MaxClock == 1
MaxLimit == 2

(***************************************************************************)
(* CheckStatus and CheckResult.                                            *)
(***************************************************************************)
PASS == "pass"
WARN == "warning"
FAIL == "fail"
INFO == "info"
ERROR == "error"
CheckStatus == {PASS, WARN, FAIL, INFO, ERROR}

CheckResult(name, status, score) == [name |-> name, status |-> status, score |-> score]

(***************************************************************************)
(* The rule tables of calculate_score.                                     *)
(***************************************************************************)
phishing_checks ==
  {"brand_impersonation", "suspicious_links", "credential_harvesting",
   "link_spoofing", "suspicious_subject", "urls_advanced", "envelope_sender",
   "reply_to", "suspicious_domains", "unicode_spoofing", "official_from_free",
   "malicious_urls"}

critical_v2_checks == {"unicode_spoofing", "official_from_free", "malicious_urls"}

critical_checks == {"attachments", "html_content"}

spam_checks == {"low_context", "received_chain"}

StartScore == 100
SeverePenalty == -20
ThreatCapScore == 10
MaxScore == 100
SafeScore == 80
LowScore == 60
MediumScore == 40
HighScore == 20
FailSpam == 3
FailWarnFail == 2
FailWarnWarn == 3
WarnSpam == 5

(***************************************************************************)
(* Inputs: the CheckResults the model appends.  One representative of each *)
(* rule class of calculate_score, with scores that reach both clamps and   *)
(* every risk tier.                                                        *)
(***************************************************************************)
CheckUniverse ==
  { CheckResult("unicode_spoofing", FAIL, -100),  \* critical v2 veto
    CheckResult("spf", PASS, 50),                 \* positive score
    CheckResult("headers", FAIL, -50),            \* FAIL outside every table
    CheckResult("sender", WARN, -20),             \* WARN outside every table
    CheckResult("link_spoofing", ERROR, -30),     \* ERROR on a phishing-grade name
    CheckResult("spf", ERROR, 0) }                \* ERROR as check_spf builds it

\* The three critical v2 detectors, failing and not, among passing checks.
VetoUniverse ==
  { CheckResult("unicode_spoofing", FAIL, -100),
    CheckResult("official_from_free", FAIL, -150),
    CheckResult("malicious_urls", FAIL, -30),
    CheckResult("official_from_free", INFO, 0),
    CheckResult("spf", PASS, 50),
    CheckResult("dkim", PASS, 50) }

(***************************************************************************)
(* calculate_score.  acc holds the locals and the two flags the loop       *)
(* writes: fail_count, warn_count, severe_penalty, is_phishing, is_spam.   *)
(* The loop only ever sets a flag, so a pass leaves flag \/ rule.          *)
(***************************************************************************)
FailCount(check) == IF check.status = FAIL THEN 1 ELSE 0

WarnCount(check) == IF check.status = WARN THEN 1 ELSE 0

PhishingRuleBelow(check) ==
  /\ check.name \in phishing_checks
  /\ check.status = FAIL \/ check.score < SeverePenalty

\* if check.name in phishing_checks: FAIL, or else a score <= -2.0
PhishingRule(check) ==
  /\ check.name \in phishing_checks
  /\ check.status = FAIL \/ check.score <= SeverePenalty

\* the three critical v2 detectors: a FAIL sets is_phishing and is_spam
CriticalV2Rule(check) ==
  /\ check.name \in critical_v2_checks
  /\ check.status = FAIL

\* attachments, html_content: a FAIL with score <= -2.0 sets is_spam
CriticalThreatRuleAnyFail(check) ==
  check.name \in critical_checks /\ check.status = FAIL

CriticalThreatRule(check) ==
  /\ check.name \in critical_checks /\ check.status = FAIL
  /\ check.score <= SeverePenalty

\* low_context, received_chain: a FAIL sets is_spam
SpamRule(check) == check.name \in spam_checks /\ check.status = FAIL

SetsPhishing(check) == PhishingRule(check) \/ CriticalV2Rule(check)

SetsSpamWithoutV2(check) == CriticalThreatRule(check) \/ SpamRule(check)

SetsSpam(check) == CriticalV2Rule(check) \/ CriticalThreatRule(check) \/ SpamRule(check)

Penalty(check) ==
  (IF PhishingRule(check) THEN Abs(check.score) ELSE 0)
  + (IF CriticalThreatRule(check) THEN Abs(check.score) ELSE 0)

\* One pass of the for loop: the locals and flags after looking at check.
LoopBody(acc, check) ==
  [fail_count |-> acc.fail_count + FailCount(check),
   warn_count |-> acc.warn_count + WarnCount(check),
   severe_penalty |-> acc.severe_penalty + Penalty(check),
   is_phishing |-> acc.is_phishing \/ SetsPhishing(check),
   is_spam |-> acc.is_spam \/ SetsSpam(check)]

RECURSIVE WalkChecks(_, _, _)
WalkChecks(cs, i, acc) ==
  IF i > Len(cs) THEN acc ELSE WalkChecks(cs, i + 1, LoopBody(acc, cs[i]))

CombinationRuleFailOnly(acc) ==
  IF acc.fail_count >= FailSpam THEN [acc EXCEPT !.is_spam = TRUE] ELSE acc

CombinationRule(acc) ==
  LET a1 == IF acc.fail_count >= FailSpam
               \/ (acc.fail_count >= FailWarnFail /\ acc.warn_count >= FailWarnWarn)
            THEN [acc EXCEPT !.is_spam = TRUE]
            ELSE acc
  IN IF a1.warn_count >= WarnSpam /\ a1.fail_count = 0
     THEN [a1 EXCEPT !.is_spam = TRUE]
     ELSE a1

RECURSIVE SumScores(_, _, _)
SumScores(cs, i, score) ==
  IF i > Len(cs) THEN score ELSE SumScores(cs, i + 1, score + cs[i].score)

ThreatCapNone(score, flagged) == score

ThreatCap(score, flagged) == IF flagged THEN Min(score, ThreatCapScore) ELSE score

ClampScoreNoCeiling(score) == Max(0, score)

ClampScoreNoFloor(score) == Min(MaxScore, score)

ClampScore(score) == Max(0, Min(MaxScore, score))

RiskLevelStrict(flagged, total) ==
  IF flagged THEN "critical"
  ELSE IF total > SafeScore THEN "safe"
  ELSE IF total > LowScore THEN "low"
  ELSE IF total > MediumScore THEN "medium"
  ELSE IF total > HighScore THEN "high"
  ELSE "critical"

RiskLevel(flagged, total) ==
  IF flagged THEN "critical"
  ELSE IF total >= SafeScore THEN "safe"
  ELSE IF total >= LowScore THEN "low"
  ELSE IF total >= MediumScore THEN "medium"
  ELSE IF total >= HighScore THEN "high"
  ELSE "critical"

InitialScoreCarried == total_score

InitialScore == StartScore

\* The fields calculate_score leaves, from the check list and the two flags
\* as they stand when it is called (the method never resets them).
CalcScore(cs, spam0, phish0) ==
  LET acc0 == [fail_count |-> 0, warn_count |-> 0, severe_penalty |-> 0,
               is_phishing |-> phish0, is_spam |-> spam0]
      acc == CombinationRule(WalkChecks(cs, 1, acc0))
      flagged == acc.is_phishing \/ acc.is_spam
      total == ClampScore(ThreatCap(SumScores(cs, 1, InitialScore), flagged))
  IN [total_score |-> total,
      risk_level |-> RiskLevel(flagged, total),
      is_spam |-> acc.is_spam,
      is_phishing |-> acc.is_phishing]

Verdict ==
  [total_score |-> total_score, risk_level |-> risk_level,
   is_spam |-> is_spam, is_phishing |-> is_phishing]

scored == calls > 0

(***************************************************************************)
(* Construction: the dataclass defaults, or from_dict of a stored          *)
(* document (the flags, score and tier are taken from the document, the    *)
(* checks are appended one by one).                                        *)
(***************************************************************************)
DocCheckLists(universe) ==
  UNION { [1..n -> universe] : n \in 0..MaxDocChecks }

StoredDocs(universe) ==
  { [total_score |-> d[1], risk_level |-> d[2], is_spam |-> d[3], is_phishing |-> d[4],
     checks |-> cs] :
      d \in { <<10, "critical", TRUE, FALSE>>, <<0, "critical", FALSE, TRUE>>,
              <<10, "critical", TRUE, TRUE>>, <<100, "safe", FALSE, FALSE>> },
      cs \in DocCheckLists(universe) }

NewResult ==
  /\ checks = <<>> /\ total_score = 0 /\ risk_level = "safe"
  /\ is_spam = FALSE /\ is_phishing = FALSE
  /\ calls = 0 /\ fresh = TRUE

from_dict(data) ==
  /\ checks = data.checks
  /\ total_score = data.total_score /\ risk_level = data.risk_level
  /\ is_spam = data.is_spam /\ is_phishing = data.is_phishing
  /\ calls = 0 /\ fresh = FALSE

AnalyzeIdle ==
  /\ pc = "idle" /\ step = 0 /\ budget = 0 /\ raised = ""
  /\ returned = "none" /\ log = {}

\* The pool threads of a batch: two of the MAX_WORKERS threads are enough to
\* interleave two analyses.
Workers == {"w1", "w2"}

\* No batch is running: no thread holds a message, the DNS cache is empty.
WorkersIdle ==
  /\ wmsg = [w \in Workers |-> ""]
  /\ wpc = [w \in Workers |-> "idle"]
  /\ wstep = [w \in Workers |-> 0]
  /\ wchecks = [w \in Workers |-> <<>>]
  /\ dnsCache = {}

\* An empty logs_dir, and no load_all call yet.
LogEmpty ==
  /\ files = {} /\ now = 0 /\ saved = {}
  /\ load = [done |-> FALSE, email_account |-> <<>>, limit |-> 0, results |-> <<>>]

\* The uids of one account's unseen messages, as submitted to the pool.
Uids == {"1", "2"}

NoVerdict == [total_score |-> 0, risk_level |-> "safe", is_spam |-> FALSE, is_phishing |-> FALSE]

\* No uid has been submitted.
BatchIdle ==
  /\ batch = [uid \in Uids |->
               [pc |-> "idle", message_id |-> "", analyzed |-> FALSE,
                result |-> NoVerdict, move_to_spam |-> FALSE]]
  /\ checked_ids = {}

\* No extractor is being called on its own.
NoCall == arg = "none" /\ ret = [done |-> FALSE]

\* move_to_spam has not been called; the message is in the folder.
ImapIdle ==
  /\ inbox = "present" /\ copied = {}
  /\ move = [pc |-> "idle", folder |-> 0, returned |-> FALSE]

\* DNSCache.get(key) returning None, and the state of a thread outside
\* the cache.
None == [some |-> FALSE, value |-> [kind |-> "", domain |-> ""]]

NoCacheCall == [pc |-> "idle", op |-> "", kind |-> "", got |-> None]

CacheIdle ==
  /\ cache_lock = "free" /\ clock = 0
  /\ th = [w \in Workers |-> NoCacheCall]

\* No check is running.
RunIdle ==
  /\ is_checking = FALSE /\ threads = 0
  /\ run = [pc |-> "idle", account |-> 0, accounts |-> 0]

ExtraIdle == ImapIdle /\ CacheIdle /\ RunIdle

RestIdle == WorkersIdle /\ LogEmpty /\ BatchIdle /\ NoCall /\ ExtraIdle

add_check(check) ==
  /\ Len(checks) < MaxChecks
  /\ checks' = Append(checks, check)
  /\ calls' = 0
  /\ fresh' = (fresh /\ ~scored)
  /\ UNCHANGED <<total_score, risk_level, is_spam, is_phishing>>

calculate_score ==
  LET v == CalcScore(checks, is_spam, is_phishing)
  IN /\ calls < MaxCalls
     /\ total_score' = v.total_score
     /\ risk_level' = v.risk_level
     /\ is_spam' = v.is_spam
     /\ is_phishing' = v.is_phishing
     /\ calls' = calls + 1
     /\ UNCHANGED <<checks, fresh>>

(***************************************************************************)
(* Spec: one AnalysisResult, built either way, under any sequence of       *)
(* add_check and calculate_score calls.                                    *)
(***************************************************************************)
Init ==
  /\ NewResult \/ \E data \in StoredDocs(CheckUniverse) : from_dict(data)
  /\ AnalyzeIdle
  /\ RestIdle

AddCheck == (\E check \in CheckUniverse : add_check(check)) /\ UNCHANGED <<analyzeVars, restVars>>

CalculateScore == calculate_score /\ UNCHANGED <<analyzeVars, restVars>>

Next == AddCheck \/ CalculateScore

Spec == Init /\ [][Next]_vars

(***************************************************************************)
(* SpecVeto: the same object over the critical v2 detectors' results.      *)
(***************************************************************************)
InitVeto ==
  /\ NewResult \/ \E data \in StoredDocs(VetoUniverse) : from_dict(data)
  /\ AnalyzeIdle
  /\ RestIdle

AddVetoCheck == (\E check \in VetoUniverse : add_check(check)) /\ UNCHANGED <<analyzeVars, restVars>>

NextVeto == AddVetoCheck \/ CalculateScore

SpecVeto == InitVeto /\ [][NextVeto]_vars

(***************************************************************************)
(* SpecPhishing: the same object over checks on both sides of the          *)
(* phishing rule: phishing-grade names at and just above the score of      *)
(* -2.0, and other names with a FAIL or a heavy penalty.                   *)
(***************************************************************************)
PhishingUniverse ==
  { CheckResult("link_spoofing", WARN, -20), CheckResult("reply_to", WARN, -15),
    CheckResult("suspicious_subject", FAIL, -10), CheckResult("headers", FAIL, -50),
    CheckResult("attachments", FAIL, -30), CheckResult("spf", PASS, 50) }

InitPhishing ==
  /\ NewResult \/ \E data \in StoredDocs(PhishingUniverse) : from_dict(data)
  /\ AnalyzeIdle
  /\ RestIdle

AddPhishingCheck ==
  (\E check \in PhishingUniverse : add_check(check)) /\ UNCHANGED <<analyzeVars, restVars>>

NextPhishing == AddPhishingCheck \/ CalculateScore

SpecPhishing == InitPhishing /\ [][NextPhishing]_vars

(***************************************************************************)
(* SpecSpam: the same object over checks around the per-check spam rules:  *)
(* critical-threat names failing at -2.0 and above it, a spam-grade FAIL,  *)
(* a FAIL outside every table and a light WARN.                            *)
(***************************************************************************)
SpamUniverse ==
  { CheckResult("attachments", FAIL, -30),    \* check_attachments, dangerous file
    CheckResult("html_content", FAIL, -20),   \* check_html_content, at the threshold
    CheckResult("attachments", FAIL, -15),    \* FAIL above the threshold
    CheckResult("low_context", FAIL, -10),
    CheckResult("headers", FAIL, -50),
    CheckResult("sender", WARN, -5) }

InitSpam ==
  /\ NewResult \/ \E data \in StoredDocs(SpamUniverse) : from_dict(data)
  /\ AnalyzeIdle
  /\ RestIdle

AddSpamCheck ==
  (\E check \in SpamUniverse : add_check(check)) /\ UNCHANGED <<analyzeVars, restVars>>

NextSpam == AddSpamCheck \/ CalculateScore

SpecSpam == InitSpam /\ [][NextSpam]_vars

(***************************************************************************)
(* Part 2: EmailAnalyzer.analyze.                                          *)
(*                                                                         *)
(* The extractors read the message text; the model draws each extractor's  *)
(* outcome for the message instead: the result it returns when it finds    *)
(* nothing, a result it returns when it finds something, or the exception  *)
(* it raises on a malformed field.  A message yields at most MaxFindings   *)
(* findings.  Scores are the source's, in tenths.                          *)
(***************************************************************************)
Pipeline ==
  <<"spf", "dkim", "dmarc", "mx",
    "received_chain", "envelope_sender", "originating_ip",
    "trigger_words", "urls_advanced", "attachments", "html_content",
    "brand_impersonation",
    "headers", "sender", "low_context", "suspicious_subject", "link_spoofing",
    "suspicious_domains", "reply_to",
    "unicode_spoofing", "official_from_free", "auth_results", "malicious_urls">>

\* The four DNS checks run only when from_email holds a sender domain.
FirstStep(has_domain) == IF has_domain THEN 1 ELSE 5

DnsChecks == {"spf", "dkim", "dmarc", "mx"}

ContentChecks == {"trigger_words", "attachments", "html_content", "brand_impersonation"}

\* DNSChecker: the record is there and strict (spf -all, a 2048-bit dkim
\* key, dmarc p=reject, an MX record).
DnsClean(name) ==
  CASE name = "spf" -> CheckResult(name, PASS, 5)
    [] name = "dkim" -> CheckResult(name, PASS, 5)
    [] name = "dmarc" -> CheckResult(name, PASS, 5)
    [] name = "mx" -> CheckResult(name, PASS, 2)

\* DNSChecker: the record is absent.
DnsFinding(name) ==
  CASE name = "spf" -> CheckResult(name, WARN, -5)
    [] name = "dkim" -> CheckResult(name, WARN, -3)
    [] name = "dmarc" -> CheckResult(name, WARN, -3)
    [] name = "mx" -> CheckResult(name, WARN, -5)

\* ContentAnalyzer: no trigger word, no attachment, no HTML, no brand named.
ContentClean(name) ==
  CASE name = "trigger_words" -> CheckResult(name, PASS, 2)
    [] name = "attachments" -> CheckResult(name, INFO, 0)
    [] name = "html_content" -> CheckResult(name, INFO, 0)
    [] name = "brand_impersonation" -> CheckResult(name, INFO, 0)

\* ContentAnalyzer: three threat words; a critical attachment; two dangerous
\* tags; an official-sounding name on a free-mail sender.
ContentFinding(name) ==
  CASE name = "trigger_words" -> CheckResult(name, FAIL, -15)
    [] name = "attachments" -> CheckResult(name, FAIL, -30)
    [] name = "html_content" -> CheckResult(name, FAIL, -20)
    [] name = "brand_impersonation" -> CheckResult(name, FAIL, -30)

\* EmailAnalyzer._check_*: the result of each on a message with nothing to
\* report (INFO when there is nothing to look at, PASS otherwise).
AnalyzerClean(name) ==
  CASE name = "received_chain" -> CheckResult(name, PASS, 2)
    [] name = "envelope_sender" -> CheckResult(name, PASS, 2)
    [] name = "originating_ip" -> CheckResult(name, INFO, 0)
    [] name = "urls_advanced" -> CheckResult(name, INFO, 0)
    [] name = "headers" -> CheckResult(name, PASS, 2)
    [] name = "sender" -> CheckResult(name, PASS, 1)
    [] name = "low_context" -> CheckResult(name, PASS, 1)
    [] name = "suspicious_subject" -> CheckResult(name, PASS, 1)
    [] name = "link_spoofing" -> CheckResult(name, INFO, 0)
    [] name = "suspicious_domains" -> CheckResult(name, INFO, 0)
    [] name = "reply_to" -> CheckResult(name, INFO, 0)
    [] name = "unicode_spoofing" -> CheckResult(name, PASS, 1)
    [] name = "official_from_free" -> CheckResult(name, INFO, 0)
    [] name = "auth_results" -> CheckResult(name, INFO, 0)
    [] name = "malicious_urls" -> CheckResult(name, INFO, 0)

\* EmailAnalyzer._check_*: a result each returns when the message trips it.
AnalyzerFinding(name) ==
  CASE name = "received_chain" -> CheckResult(name, WARN, -5)
    [] name = "envelope_sender" -> CheckResult(name, WARN, -5)
    [] name = "originating_ip" -> CheckResult(name, WARN, -5)
    [] name = "urls_advanced" -> CheckResult(name, FAIL, -30)
    [] name = "headers" -> CheckResult(name, FAIL, -13)
    [] name = "sender" -> CheckResult(name, FAIL, -10)
    [] name = "low_context" -> CheckResult(name, FAIL, -50)
    [] name = "suspicious_subject" -> CheckResult(name, FAIL, -30)
    [] name = "link_spoofing" -> CheckResult(name, FAIL, -20)
    [] name = "suspicious_domains" -> CheckResult(name, WARN, -5)
    [] name = "reply_to" -> CheckResult(name, FAIL, -20)
    [] name = "unicode_spoofing" -> CheckResult(name, FAIL, -40)
    [] name = "official_from_free" -> CheckResult(name, FAIL, -50)
    [] name = "auth_results" -> CheckResult(name, WARN, -5)
    [] name = "malicious_urls" -> CheckResult(name, FAIL, -30)

CleanResult(name) ==
  IF name \in DnsChecks THEN DnsClean(name)
  ELSE IF name \in ContentChecks THEN ContentClean(name)
  ELSE AnalyzerClean(name)

FindingResult(name) ==
  IF name \in DnsChecks THEN DnsFinding(name)
  ELSE IF name \in ContentChecks THEN ContentFinding(name)
  ELSE AnalyzerFinding(name)

\* Extractors with no handler around the statement that raises: a header
\* value that is no string (envelope_sender, return_path.strip), an
\* attachment whose filename is None (attachments, filename.lower), a
\* subject or from_name that is None (unicode_spoofing, subject + " ").
CanRaise == {"envelope_sender", "attachments", "unicode_spoofing"}

\* analyze, lines 92-120: the fresh AnalysisResult and the sender domain.
AnalyzeStart ==
  /\ pc = "idle"
  /\ \E has_domain \in BOOLEAN : step' = FirstStep(has_domain)
  /\ checks' = <<>> /\ total_score' = 0 /\ risk_level' = "safe"
  /\ is_spam' = FALSE /\ is_phishing' = FALSE /\ calls' = 0 /\ fresh' = TRUE
  /\ budget' = MaxFindings
  /\ pc' = "extract"
  /\ UNCHANGED <<raised, returned, log>>
  /\ UNCHANGED restVars

\* After the last extractor analyze goes on to calculate_score.
AfterExtractor == IF step = Len(Pipeline) THEN "score" ELSE "extract"

\* analyze, lines 122-217: result.add_check(<extractor>(...)), in order.  No
\* try/except encloses the calls: an exception leaves analyze at once.
RunExtractor ==
  /\ pc = "extract"
  /\ \/ /\ checks' = Append(checks, CleanResult(Pipeline[step]))
        /\ step' = step + 1 /\ pc' = AfterExtractor
        /\ UNCHANGED <<budget, raised, returned>>
     \/ /\ budget > 0
        /\ checks' = Append(checks, FindingResult(Pipeline[step]))
        /\ step' = step + 1 /\ pc' = AfterExtractor
        /\ budget' = budget - 1
        /\ UNCHANGED <<raised, returned>>
     \/ /\ Pipeline[step] \in CanRaise
        /\ raised' = Pipeline[step]
        /\ returned' = "exception"
        /\ pc' = "done"
        /\ UNCHANGED <<checks, step, budget>>
  /\ UNCHANGED <<total_score, risk_level, is_spam, is_phishing, calls, fresh, log>>
  /\ UNCHANGED restVars

\* analyze, line 220.
AnalyzeScore ==
  /\ pc = "score"
  /\ calculate_score
  /\ pc' = "save"
  /\ UNCHANGED <<step, budget, raised, returned, log>>
  /\ UNCHANGED restVars

\* AnalysisResult.to_dict, as far as the model holds the fields.
to_dict ==
  [checks |-> checks, total_score |-> total_score, risk_level |-> risk_level,
   is_spam |-> is_spam, is_phishing |-> is_phishing]

\* analyze, lines 226-228: self.logger.save(result), then return result.
\* save raises OSError when makedirs or open fails; analyze does not catch
\* it, so the return statement is not reached.
LoggerSave ==
  /\ pc = "save"
  /\ \/ /\ log' = log \cup {to_dict}
        /\ returned' = "result"
        /\ UNCHANGED raised
     \/ /\ raised' = "save"
        /\ returned' = "exception"
        /\ UNCHANGED log
  /\ pc' = "done"
  /\ UNCHANGED <<checks, total_score, risk_level, is_spam, is_phishing, calls, fresh,
                 step, budget>>
  /\ UNCHANGED restVars

InitAnalyze == NewResult /\ AnalyzeIdle /\ RestIdle

NextAnalyze == AnalyzeStart \/ RunExtractor \/ AnalyzeScore \/ LoggerSave

SpecAnalyze == InitAnalyze /\ [][NextAnalyze]_vars

(***************************************************************************)
(* Part 3: SpecWorkers, two pool threads of MainWindow._check_worker, each *)
(* inside EmailAnalyzer.analyze for its own message.  Each call owns its   *)
(* AnalysisResult; the threads share the DNSChecker cache only.  A check   *)
(* is kept here as its name, what it is about (the sender domain for a DNS *)
(* check, the thread's own message otherwise) and whether the object came  *)
(* out of the cache.                                                       *)
(***************************************************************************)
Domains == {"", "a.example", "b.example"}

WorkerCheck(name, about, cached) == [name |-> name, about |-> about, cached |-> cached]

CacheKeyByDomain(kind, domain) == <<"dns", domain>>

\* cache_key = f"spf:{domain}", f"dkim:{domain}:...", f"dmarc:{domain}",
\* f"mx:{domain}".
CacheKey(kind, domain) == <<kind, domain>>

\* DNSCache.get and DNSCache.set, each under the cache's lock.
CacheHas(key) == \E e \in dnsCache : e.key = key

CacheValue(key) == (CHOOSE e \in dnsCache : e.key = key).value

CacheDrop(key) == {e \in dnsCache : e.key # key}

CacheSet(key, value) == CacheDrop(key) \cup {[key |-> key, value |-> value]}

WorkerAfter(w) ==
  IF wstep[w] = Len(Pipeline) THEN "score"
  ELSE IF Pipeline[wstep[w] + 1] \in DnsChecks THEN "get" ELSE "local"

WorkerAppend(w, check) ==
  /\ wchecks' = [wchecks EXCEPT ![w] = Append(@, check)]
  /\ wstep' = [wstep EXCEPT ![w] = @ + 1]
  /\ wpc' = [wpc EXCEPT ![w] = WorkerAfter(w)]

\* analyze, lines 92-123, entered by a pool thread with its message.
WorkerStart(w) ==
  /\ wpc[w] = "idle"
  /\ \E domain \in Domains :
       /\ wmsg' = [wmsg EXCEPT ![w] = domain]
       /\ wstep' = [wstep EXCEPT ![w] = FirstStep(domain # "")]
       /\ wpc' = [wpc EXCEPT ![w] = IF domain # "" THEN "get" ELSE "local"]
  /\ UNCHANGED <<wchecks, dnsCache>>

\* check_spf/dkim/dmarc/mx up to the cache lookup: a live entry is returned
\* as it is, an expired one is deleted, and a miss goes on to the resolver.
WorkerCacheGet(w) ==
  LET key == CacheKey(Pipeline[wstep[w]], wmsg[w])
  IN /\ wpc[w] = "get"
     /\ \/ /\ CacheHas(key)
           /\ WorkerAppend(w, [CacheValue(key) EXCEPT !.cached = TRUE])
           /\ UNCHANGED dnsCache
        \/ /\ CacheHas(key)
           /\ dnsCache' = CacheDrop(key)
           /\ wpc' = [wpc EXCEPT ![w] = "resolve"]
           /\ UNCHANGED <<wstep, wchecks>>
        \/ /\ ~CacheHas(key)
           /\ wpc' = [wpc EXCEPT ![w] = "resolve"]
           /\ UNCHANGED <<wstep, wchecks, dnsCache>>
     /\ UNCHANGED wmsg

\* The rest of a DNS check: the result is built from the resolver's answer
\* and, on most paths, stored in the cache before it is returned.
WorkerResolve(w) ==
  LET name == Pipeline[wstep[w]]
      result == WorkerCheck(name, wmsg[w], FALSE)
  IN /\ wpc[w] = "resolve"
     /\ WorkerAppend(w, result)
     /\ \/ dnsCache' = CacheSet(CacheKey(name, wmsg[w]), result)
        \/ UNCHANGED dnsCache
     /\ UNCHANGED wmsg

\* analyze, lines 142-217: an extractor that reads the message only.
WorkerExtractor(w) ==
  /\ wpc[w] = "local"
  /\ \/ WorkerAppend(w, WorkerCheck(Pipeline[wstep[w]], w, FALSE))
     \/ /\ Pipeline[wstep[w]] \in CanRaise
        /\ wpc' = [wpc EXCEPT ![w] = "failed"]
        /\ UNCHANGED <<wstep, wchecks>>
  /\ UNCHANGED <<wmsg, dnsCache>>

\* analyze, lines 219-228: the verdict, the log and the return.
WorkerFinish(w) ==
  /\ wpc[w] = "score"
  /\ wpc' = [wpc EXCEPT ![w] = "done"]
  /\ UNCHANGED <<wmsg, wstep, wchecks, dnsCache>>

InitWorkers == NewResult /\ AnalyzeIdle /\ RestIdle

Start == \E w \in Workers : WorkerStart(w) /\ UNCHANGED <<resultVars, analyzeVars, extraVars, logVars, batchVars, callVars>>

CacheGet == \E w \in Workers : WorkerCacheGet(w) /\ UNCHANGED <<resultVars, analyzeVars, extraVars, logVars, batchVars, callVars>>

Resolve == \E w \in Workers : WorkerResolve(w) /\ UNCHANGED <<resultVars, analyzeVars, extraVars, logVars, batchVars, callVars>>

Extractor == \E w \in Workers : WorkerExtractor(w) /\ UNCHANGED <<resultVars, analyzeVars, extraVars, logVars, batchVars, callVars>>

Finish == \E w \in Workers : WorkerFinish(w) /\ UNCHANGED <<resultVars, analyzeVars, extraVars, logVars, batchVars, callVars>>

NextWorkers == Start \/ CacheGet \/ Resolve \/ Extractor \/ Finish

SpecWorkers == InitWorkers /\ [][NextWorkers]_vars

(***************************************************************************)
(* Part 4: SpecLog, AnalysisLogger over logs_dir.  Names are strings, kept *)
(* as sequences of characters so that _safe_filename, the file name and    *)
(* the order of paths are computed as the code computes them.  A file is   *)
(* its directory, its name, its modification time, the document written    *)
(* (the two fields load_all reads) and whether json.load can read it.      *)
(***************************************************************************)
\* The characters in use, in code point order.
Alphabet ==
  <<".", "/", "0", "1", "2", "3", "4", "5", "6", "7", "8", "9", ":", "@", "_",
    "a", "b", "j", "n", "o", "s", "u", "v">>

Ord(c) == CHOOSE i \in DOMAIN Alphabet : Alphabet[i] = c

\* str.isalnum on the characters in use.
IsAlnum(c) == c \notin {".", "/", ":", "@", "_"}

SafeCharAlnumOnly(c) == IF IsAlnum(c) THEN c ELSE "_"

\* c if c.isalnum() or c in "._-@" else "_"
SafeChar(c) == IF IsAlnum(c) \/ c \in {".", "_", "-", "@"} THEN c ELSE "_"

safe_filename(name) == [i \in DOMAIN name |-> SafeChar(name[i])]

\* self._safe_filename(result.message_id)[:50]
IdLimit == 50

Prefix(s, n) == SubSeq(s, 1, Min(Len(s), n))

\* strftime("%Y%m%d_%H%M%S") of the second the result was analysed in.
DateStr(second) == <<Alphabet[Ord("0") + second]>>

\* save: account_dir and filename.
SavePath(email_account, second, message_id) ==
  [dir |-> safe_filename(email_account),
   name |-> DateStr(second) \o <<"_">> \o Prefix(safe_filename(message_id), IdLimit)
              \o <<".", "j", "s", "o", "n">>]

FilePath(f) == f.dir \o <<"/">> \o f.name

\* Python's order on str: the first differing character decides, a proper
\* prefix comes first.
RECURSIVE StrLess(_, _)
StrLess(a, b) ==
  IF a = <<>> THEN b # <<>>
  ELSE IF b = <<>> THEN FALSE
  ELSE IF Head(a) # Head(b) THEN Ord(Head(a)) < Ord(Head(b))
  ELSE StrLess(Tail(a), Tail(b))

Accounts == {<<"u">>, <<"v">>}

MessageIds == {<<>>, <<"a">>, <<"a", "/">>, <<"a", ":">>}

\* save(result): one file per path; open(filepath, "w") replaces what was
\* there.
save(email_account, message_id) ==
  LET p == SavePath(email_account, now, message_id)
  IN /\ ~load.done
     /\ Cardinality(files) < MaxFiles
     /\ files' = {f \in files : ~(f.dir = p.dir /\ f.name = p.name)} \cup
                 {[dir |-> p.dir, name |-> p.name, mtime |-> now, ok |-> TRUE,
                   message_id |-> message_id, email_account |-> email_account]}
     /\ saved' = saved \cup {<<email_account, message_id>>}
     /\ UNCHANGED <<now, load>>

\* A second passes.
Tick ==
  /\ ~load.done /\ now < MaxClock
  /\ now' = now + 1
  /\ UNCHANGED <<files, saved, load>>

\* A file of logs_dir becomes unreadable to json.load.
Damage ==
  /\ ~load.done
  /\ \A g \in files : g.ok
  /\ \E f \in files : files' = (files \ {f}) \cup {[f EXCEPT !.ok = FALSE]}
  /\ UNCHANGED <<now, saved, load>>

\* files.sort(reverse=True) on (mtime, filepath).
FileBefore(f, g) ==
  \/ f.mtime > g.mtime
  \/ f.mtime = g.mtime /\ StrLess(FilePath(g), FilePath(f))

RECURSIVE SortFiles(_)
SortFiles(S) ==
  IF S = {} THEN <<>>
  ELSE LET first == CHOOSE f \in S : \A g \in S \ {f} : FileBefore(f, g)
       IN <<first>> \o SortFiles(S \ {first})

\* load_all: the account directories scanned.
LoadScope(email_account) ==
  IF email_account # <<>>
  THEN {f \in files : f.dir = safe_filename(email_account)}
  ELSE files

NeverDuplicate(message_id, seen) == FALSE

\* if result.message_id and result.message_id in seen_message_ids
IsDuplicate(message_id, seen) == message_id # <<>> /\ message_id \in seen

\* load_all: the loop over the sorted files.
RECURSIVE ScanFiles(_, _, _, _, _)
ScanFiles(fs, i, seen, results, limit) ==
  IF i > Len(fs) \/ Len(results) >= limit THEN results
  ELSE IF ~fs[i].ok THEN ScanFiles(fs, i + 1, seen, results, limit)
  ELSE IF IsDuplicate(fs[i].message_id, seen)
       THEN ScanFiles(fs, i + 1, seen, results, limit)
  ELSE ScanFiles(fs, i + 1, seen \cup {fs[i].message_id}, Append(results, fs[i]), limit)

load_all(email_account, limit) ==
  /\ ~load.done
  /\ load' = [done |-> TRUE, email_account |-> email_account, limit |-> limit,
              results |-> ScanFiles(SortFiles(LoadScope(email_account)), 1, {}, <<>>, limit)]
  /\ UNCHANGED <<files, now, saved>>

InitLog == NewResult /\ AnalyzeIdle /\ RestIdle

Save ==
  /\ \E email_account \in Accounts, message_id \in MessageIds :
       save(email_account, message_id)
  /\ UNCHANGED <<resultVars, analyzeVars, extraVars, workerVars, batchVars, callVars>>

ClockTick == Tick /\ UNCHANGED <<resultVars, analyzeVars, extraVars, workerVars, batchVars, callVars>>

DamageFile == Damage /\ UNCHANGED <<resultVars, analyzeVars, extraVars, workerVars, batchVars, callVars>>

LoadAll ==
  /\ \E email_account \in Accounts \cup {<<>>}, limit \in 1..MaxLimit :
       load_all(email_account, limit)
  /\ UNCHANGED <<resultVars, analyzeVars, extraVars, workerVars, batchVars, callVars>>

NextLog == Save \/ ClockTick \/ DamageFile \/ LoadAll

SpecLog == InitLog /\ [][NextLog]_vars

(***************************************************************************)
(* Part 5: SpecBatch, MainWindow._check_worker for one account: every uid  *)
(* is handed to process_email on a pool thread.  The sections under        *)
(* imap_lock and under checked_ids_lock are single steps.  A message is    *)
(* its message_id and what the extractors find in it; analyze turns that   *)
(* into the check list of Part 2 and the verdict of Part 1.                *)
(***************************************************************************)
BatchIds == {"", "m1", "m2"}

Profiles ==
  { [has_domain |-> FALSE, findings |-> {}, malformed |-> FALSE],
    [has_domain |-> TRUE, findings |-> {"link_spoofing"}, malformed |-> FALSE],
    [has_domain |-> FALSE, findings |-> {"low_context"}, malformed |-> FALSE],
    [has_domain |-> FALSE, findings |-> {"trigger_words", "headers", "originating_ip"},
     malformed |-> FALSE],
    [has_domain |-> TRUE, findings |-> {"unicode_spoofing"}, malformed |-> TRUE] }

\* The checks analyze appends for a message of that profile.
ProfileChecks(profile) ==
  LET names == SubSeq(Pipeline, FirstStep(profile.has_domain), Len(Pipeline))
  IN [i \in DOMAIN names |->
        IF names[i] \in profile.findings
        THEN FindingResult(names[i]) ELSE CleanResult(names[i])]

\* calculate_score on the checks of each profile.
ProfileVerdict ==
  [profile \in Profiles |-> CalcScore(ProfileChecks(profile), FALSE, FALSE)]

ShouldQuarantineSpamOnly(result) == result.is_spam

\* if result.is_spam or result.is_phishing or result.risk_level == "critical"
ShouldQuarantine(result) ==
  result.is_spam \/ result.is_phishing \/ result.risk_level = "critical"

BatchSet(uid, field, value) == [batch EXCEPT ![uid][field] = value]

\* executor.submit(process_email, uid)
Submit(uid) ==
  /\ batch[uid].pc = "idle"
  /\ batch' = BatchSet(uid, "pc", "fetch")
  /\ UNCHANGED checked_ids

\* with imap_lock: email_data = client.fetch_email(uid); nothing fetched
\* ends the call.
Fetch(uid) ==
  /\ batch[uid].pc = "fetch"
  /\ \/ \E message_id \in BatchIds :
          batch' = [batch EXCEPT ![uid].pc = "dedup", ![uid].message_id = message_id]
     \/ batch' = BatchSet(uid, "pc", "done")
  /\ UNCHANGED checked_ids

DedupTestOnly(uid) ==
  /\ batch[uid].pc = "dedup"
  /\ batch' = BatchSet(uid, "pc",
                       IF batch[uid].message_id \in checked_ids THEN "done" ELSE "analyze")
  /\ UNCHANGED checked_ids

\* with checked_ids_lock: a message_id already taken ends the call.
Dedup(uid) ==
  /\ batch[uid].pc = "dedup"
  /\ IF batch[uid].message_id \in checked_ids
     THEN batch' = BatchSet(uid, "pc", "done") /\ UNCHANGED checked_ids
     ELSE /\ checked_ids' = checked_ids \cup {batch[uid].message_id}
          /\ batch' = BatchSet(uid, "pc", "analyze")

\* result = self.analyzer.analyze(email_data, account.email): an exception
\* goes to the except clause of process_email, which prints and returns.
Analyze(uid) ==
  /\ batch[uid].pc = "analyze"
  /\ \E profile \in Profiles :
       IF profile.malformed
       THEN batch' = BatchSet(uid, "pc", "done")
       ELSE batch' = [batch EXCEPT ![uid].pc = "display", ![uid].analyzed = TRUE,
                        ![uid].result = ProfileVerdict[profile]]
  /\ UNCHANGED checked_ids

\* The counters and the two root.after calls.
Display(uid) ==
  /\ batch[uid].pc = "display"
  /\ batch' = BatchSet(uid, "pc", "decide")
  /\ UNCHANGED checked_ids

\* The verdict test, and under imap_lock client.move_to_spam(uid).
Decide(uid) ==
  /\ batch[uid].pc = "decide"
  /\ batch' = [batch EXCEPT ![uid].pc = "done",
                            ![uid].move_to_spam = ShouldQuarantine(batch[uid].result)]
  /\ UNCHANGED checked_ids

\* existing_logs = self.analyzer.get_logs(limit=1000): the ids already in
\* the log.
InitBatch ==
  /\ NewResult /\ AnalyzeIdle /\ ExtraIdle /\ WorkersIdle /\ LogEmpty /\ NoCall
  /\ batch = [uid \in Uids |->
               [pc |-> "idle", message_id |-> "", analyzed |-> FALSE,
                result |-> NoVerdict, move_to_spam |-> FALSE]]
  /\ checked_ids \in SUBSET {"m1"}

BatchSubmit == \E uid \in Uids : Submit(uid) /\ UNCHANGED <<resultVars, analyzeVars, extraVars, workerVars, logVars, callVars>>

BatchFetch == \E uid \in Uids : Fetch(uid) /\ UNCHANGED <<resultVars, analyzeVars, extraVars, workerVars, logVars, callVars>>

BatchDedup == \E uid \in Uids : Dedup(uid) /\ UNCHANGED <<resultVars, analyzeVars, extraVars, workerVars, logVars, callVars>>

BatchAnalyze == \E uid \in Uids : Analyze(uid) /\ UNCHANGED <<resultVars, analyzeVars, extraVars, workerVars, logVars, callVars>>

BatchDisplay == \E uid \in Uids : Display(uid) /\ UNCHANGED <<resultVars, analyzeVars, extraVars, workerVars, logVars, callVars>>

BatchDecide == \E uid \in Uids : Decide(uid) /\ UNCHANGED <<resultVars, analyzeVars, extraVars, workerVars, logVars, callVars>>

NextBatch ==
  BatchSubmit \/ BatchFetch \/ BatchDedup \/ BatchAnalyze \/ BatchDisplay \/ BatchDecide

SpecBatch == InitBatch /\ [][NextBatch]_vars

(***************************************************************************)
(* Part 6: SpecUrls, the two extractors that read the IOC sets, called on  *)
(* the URLs of one message body.  A host name is a sequence of tokens      *)
(* (labels, dots, a port), so that endswith, in and split are computed on  *)
(* the text as the code computes them.  The reference data (brand domains, *)
(* high-risk TLDs, suspicious substrings) is read from JSON files that are *)
(* not part of the source; a small instance of it is fixed here.           *)
(***************************************************************************)
EndsWith(str, suffix) ==
  /\ Len(suffix) <= Len(str)
  /\ SubSeq(str, Len(str) - Len(suffix) + 1, Len(str)) = suffix

Contains(str, sub) ==
  \E i \in 1..(Len(str) - Len(sub) + 1) : SubSeq(str, i, i + Len(sub) - 1) = sub

\* str.lower()
LowerToken(t) ==
  CASE t \in {"GOOGLE", "Google"} -> "google"
    [] t = "Gmail" -> "gmail"
    [] t = "Support" -> "support"
    [] t = "Help" -> "help"
    [] t = "Desk" -> "desk"
    [] t = "Security" -> "security"
    [] t = "Alert" -> "alert"
    [] t = "EXE" -> "exe"
    [] OTHER -> t

Lower(str) == [i \in DOMAIN str |-> LowerToken(str[i])]

\* known_brands.json and suspicious_tlds.json, as loaded by AnalysisData.
brand_domains == {<<"google", ".", "com">>}

high_risk_tlds == {<<".", "ru">>}

suspicious_substrings == {<<"google">>, <<"secure">>}

shorteners == {<<"bit", ".", "ly">>}

NumberTokens == {"10", "0", "1", "443"}

Hosts ==
  { <<"google", ".", "com">>, <<"accounts", ".", "google", ".", "com">>,
    <<"GOOGLE", ".", "com">>, <<"not", "google", ".", "com">>,
    <<"paypal", "-", "secure", ".", "ru">>, <<"example", ".", "org">>,
    <<"bit", ".", "ly">>, <<"10", ".", "0", ".", "0", ".", "1">> }

\* The URLs of a body: host, optional port, and whether the URL carries
\* percent-encoded script text, a data: scheme or non-ASCII host characters.
Url(host, port, encoded) ==
  [host |-> host, port |-> port, encoded |-> encoded, data |-> FALSE, unicode |-> FALSE]

UrlUniverse ==
  { Url(host, port, FALSE) : host \in Hosts, port \in {<<>>, <<":", "443">>} }
    \cup {Url(<<"example", ".", "org">>, <<>>, TRUE)}

\* urlparse(url).netloc: the host with its port.
Netloc(url) == url.host \o url.port

\* is_brand_domain / is_official_brand_domain: equal to a brand domain or
\* ending in "." + brand domain.
is_brand_domain(domain) ==
  \/ Lower(domain) \in brand_domains
  \/ \E brand_domain \in brand_domains : EndsWith(Lower(domain), <<".">> \o brand_domain)

\* AnalysisData.is_suspicious_domain: (is_suspicious, number of reasons).
is_suspicious_domain(domain) ==
  LET domain_lower == Lower(domain)
      official == \E d \in brand_domains :
                    domain_lower = Lower(d) \/ EndsWith(domain_lower, <<".">> \o Lower(d))
      tld == IF \E t \in high_risk_tlds : EndsWith(domain_lower, t) THEN 1 ELSE 0
      sub == IF \E x \in suspicious_substrings : Contains(domain_lower, x) THEN 1 ELSE 0
  IN IF official THEN [suspicious |-> FALSE, reasons |-> 0]
     ELSE [suspicious |-> tld + sub > 0, reasons |-> tld + sub]

\* '.'.join(domain.split('.')[-2:]) if domain.count('.') >= 1 else domain
BaseDomain(domain) ==
  LET dots == {i \in DOMAIN domain : domain[i] = "."}
  IN IF Cardinality(dots) < 2 THEN domain
     ELSE LET last == CHOOSE i \in dots : \A j \in dots : j <= i
              prev == CHOOSE i \in dots \ {last} : \A j \in dots \ {last} : j <= i
          IN SubSeq(domain, prev + 1, Len(domain))

\* re.match(r'^\d+\.\d+\.\d+\.\d+', domain)
IsIp(domain) ==
  /\ Len(domain) >= 7
  /\ \A i \in {1, 3, 5, 7} : domain[i] \in NumberTokens
  /\ \A i \in {2, 4, 6} : domain[i] = "."

\* _check_urls_advanced, the body of the loop for one URL: what it adds to
\* issues, critical_issues and score.
UrlFinding(url) ==
  LET domain == Lower(Netloc(url))
      sus == is_suspicious_domain(domain)
      crit == (IF url.data THEN 1 ELSE 0) + (IF url.encoded THEN 1 ELSE 0)
                + (IF url.unicode THEN 1 ELSE 0)
  IN IF is_brand_domain(domain) THEN [issues |-> 0, critical |-> 0, score |-> 0]
     ELSE IF BaseDomain(domain) \in shorteners \/ domain \in shorteners
          THEN [issues |-> 1, critical |-> 0, score |-> -8]
     ELSE IF IsIp(domain) THEN [issues |-> 0, critical |-> 1, score |-> -20]
     ELSE [issues |-> sus.reasons, critical |-> crit,
           score |-> (IF sus.suspicious THEN -7 ELSE 0) + (IF url.data THEN -30 ELSE 0)
                       + (IF url.encoded THEN -25 ELSE 0) + (IF url.unicode THEN -20 ELSE 0)]

RECURSIVE SumFindings(_, _)
SumFindings(S, F) ==
  IF S = {} THEN [issues |-> 0, critical |-> 0, score |-> 0]
  ELSE LET x == CHOOSE y \in S : TRUE
           rest == SumFindings(S \ {x}, F)
       IN [issues |-> F[x].issues + rest.issues,
           critical |-> F[x].critical + rest.critical,
           score |-> F[x].score + rest.score]

UrlResult(status, score, issues) ==
  [name |-> "urls_advanced", status |-> status, score |-> score, issues |-> issues]

check_urls_advanced(urls) ==
  LET total == SumFindings(urls, [url \in urls |-> UrlFinding(url)])
  IN IF urls = {} THEN UrlResult(INFO, 0, 0)
     ELSE IF total.critical > 0
          THEN UrlResult(FAIL, Max(total.score, -50), total.critical + total.issues)
     ELSE IF total.issues > 0 THEN UrlResult(WARN, total.score, total.issues)
     ELSE UrlResult(PASS, 2, 0)

\* _extract_domains: the host up to the first ':', lower-cased, kept when it
\* holds a dot.
HostOnly(netloc) ==
  LET colons == {i \in DOMAIN netloc : netloc[i] = ":"}
  IN IF colons = {} THEN netloc
     ELSE SubSeq(netloc, 1, (CHOOSE i \in colons : \A j \in colons : i <= j) - 1)

extract_domains(urls) ==
  {d \in {Lower(HostOnly(Netloc(url))) : url \in urls} : \E i \in DOMAIN d : d[i] = "."}

DomainResult(status, score, issues) ==
  [name |-> "suspicious_domains", status |-> status, score |-> score, issues |-> issues]

check_suspicious_domains(domains, sender_domain) ==
  LET DomainFinding(domain) ==
        LET sus == is_suspicious_domain(Lower(domain))
        IN IF Lower(domain) = sender_domain \/ is_brand_domain(Lower(domain))
              \/ ~sus.suspicious
           THEN [issues |-> 0, critical |-> 0, score |-> 0]
           ELSE [issues |-> sus.reasons, critical |-> 0, score |-> -5]
      total == SumFindings(domains, [domain \in domains |-> DomainFinding(domain)])
  IN IF domains = {} THEN DomainResult(INFO, 0, 0)
     ELSE IF total.issues = 0 THEN DomainResult(PASS, 1, 0)
     ELSE DomainResult(WARN, total.score, total.issues)

MaxUrls == 2

UrlSets == {S \in SUBSET UrlUniverse : Cardinality(S) <= MaxUrls}

\* analyze, lines 118-120, 161 and 200: the IOC sets and the two calls.
CheckUrls ==
  /\ ~ret.done
  /\ ret' = [done |-> TRUE,
             urls_advanced |-> check_urls_advanced(arg.urls),
             suspicious_domains |->
               check_suspicious_domains(extract_domains(arg.urls), arg.sender_domain)]
  /\ UNCHANGED <<arg, resultVars, analyzeVars, extraVars, workerVars, logVars, batchVars>>

InitUrls ==
  /\ NewResult /\ AnalyzeIdle /\ ExtraIdle /\ WorkersIdle /\ LogEmpty /\ BatchIdle
  /\ arg \in [urls : UrlSets,
              sender_domain : {<<"example", ".", "org">>, <<"paypal", "-", "secure", ".", "ru">>}]
  /\ ret = [done |-> FALSE]

NextUrls == CheckUrls

SpecUrls == InitUrls /\ [][NextUrls]_vars

(***************************************************************************)
(* Part 7: SpecLinks, _check_link_spoofing called on the anchors of an     *)
(* HTML body.  An anchor is its href (quoted or not, with or without a     *)
(* protocol, host as tokens) and its displayed text (the scheme as         *)
(* written, the host as tokens, wrapped in inline markup or not).          *)
(***************************************************************************)
Anchor(href_host, text_host, quoted, markup, text_scheme) ==
  [href_host |-> href_host, href_protocol |-> TRUE, quoted |-> quoted,
   text_host |-> text_host, text_scheme |-> text_scheme, markup |-> markup]

AnchorUniverse ==
  { Anchor(href_host, text_host, quoted, markup, text_scheme) :
      href_host \in { <<"paypal", ".", "com">>, <<"paypal", "-", "secure", ".", "ru">>,
                      <<"paypal", ".", "www", ".", "com">>, <<"evil", ".", "ru">> },
      text_host \in { <<"paypal", ".", "com">>, <<"www", ".", "paypal", ".", "com">> },
      quoted \in BOOLEAN, markup \in BOOLEAN,
      text_scheme \in {"https://", "HTTPS://"} }
    \cup { [href_host |-> <<"evil", ".", "ru">>, href_protocol |-> FALSE, quoted |-> TRUE,
            text_host |-> <<>>, text_scheme |-> "", markup |-> FALSE] }

\* link_pattern: href in quotes, then text without any '<' up to </a>.
MatchesLinkPattern(a) == a.quoted /\ ~a.markup

\* re.match(r'https?://', text)
TextLooksLikeUrl(a) == a.text_scheme \in {"http://", "https://"}

\* str.replace('www.', '')
RECURSIVE StripWww(_)
StripWww(str) ==
  IF Len(str) < 2 THEN str
  ELSE IF str[1] = "www" /\ str[2] = "." THEN StripWww(SubSeq(str, 3, Len(str)))
  ELSE <<str[1]>> \o StripWww(Tail(str))

\* The first loop, for one anchor: the domains compared, the substitution
\* reported and the extra penalty when the displayed domain is a brand's.
SpoofFinding(a) ==
  LET href_domain == StripWww(Lower(a.href_host))
      text_domain == StripWww(Lower(a.text_host))
      differs == /\ MatchesLinkPattern(a) /\ TextLooksLikeUrl(a)
                 /\ href_domain # <<>> /\ text_domain # <<>>
                 /\ href_domain # text_domain
      brand == \/ text_domain \in brand_domains
               \/ \E bd \in brand_domains : EndsWith(text_domain, <<".">> \o bd)
  IN IF ~differs THEN [critical |-> 0, score |-> 0, named |-> {}]
     ELSE [critical |-> IF brand THEN 2 ELSE 1,
           score |-> IF brand THEN -100 ELSE -50,
           named |-> {<<text_domain, href_domain>>}]

\* The second loop: a quoted href without a protocol that holds a dot.
BareHrefFinding(a) ==
  IF a.quoted /\ ~a.href_protocol /\ \E k \in DOMAIN a.href_host : a.href_host[k] = "."
  THEN [issues |-> 1, score |-> -20] ELSE [issues |-> 0, score |-> 0]

\* The third loop: a quoted http(s) href whose domain has a high-risk TLD.
TldFinding(a) ==
  IF /\ a.quoted /\ a.href_protocol
     /\ ~is_brand_domain(a.href_host)
     /\ \E t \in high_risk_tlds : EndsWith(Lower(a.href_host), t)
  THEN [issues |-> 1, score |-> -15] ELSE [issues |-> 0, score |-> 0]

RECURSIVE SumOver(_, _, _)
SumOver(S, F, field) ==
  IF S = {} THEN 0
  ELSE LET x == CHOOSE y \in S : TRUE IN F[x][field] + SumOver(S \ {x}, F, field)

check_link_spoofing(html) ==
  LET spoof == [a \in html |-> SpoofFinding(a)]
      bare == [a \in html |-> BareHrefFinding(a)]
      tld == [a \in html |-> TldFinding(a)]
      critical == SumOver(html, spoof, "critical")
      issues == SumOver(html, bare, "issues") + SumOver(html, tld, "issues")
      score == SumOver(html, spoof, "score") + SumOver(html, bare, "score")
                 + SumOver(html, tld, "score")
      named == UNION {spoof[a].named : a \in html}
  IN IF html = {}
     THEN [name |-> "link_spoofing", status |-> INFO, score |-> 0, named |-> {}]
     ELSE IF critical > 0
          THEN [name |-> "link_spoofing", status |-> FAIL, score |-> Max(score, -150),
                named |-> named]
     ELSE IF issues = 0
          THEN [name |-> "link_spoofing", status |-> PASS, score |-> 1, named |-> {}]
     ELSE [name |-> "link_spoofing", status |-> FAIL, score |-> score, named |-> {}]

MaxAnchors == 1
MaxAttachments == 2
MaxTicks == 3
TickSeconds == 150
MaxAccounts == 2
MaxThreads == 2

\* The sets of at most n elements of U.
RECURSIVE SetsUpTo(_, _)
SetsUpTo(U, n) ==
  IF n = 0 THEN {{}}
  ELSE LET smaller == SetsUpTo(U, n - 1)
       IN smaller \cup {S \cup {x} : S \in smaller, x \in U}

\* analyze, line 197, and calculate_score over the one check.
CheckLinks ==
  LET r == check_link_spoofing(arg.html)
  IN /\ ~ret.done
     /\ ret' = [done |-> TRUE, link_spoofing |-> r,
                verdict |-> CalcScore(<<CheckResult(r.name, r.status, r.score)>>, FALSE, FALSE)]
     /\ UNCHANGED <<arg, resultVars, analyzeVars, extraVars, workerVars, logVars, batchVars>>

InitLinks ==
  /\ NewResult /\ AnalyzeIdle /\ ExtraIdle /\ WorkersIdle /\ LogEmpty /\ BatchIdle
  /\ arg \in [html : SetsUpTo(AnchorUniverse, MaxAnchors)]
  /\ ret = [done |-> FALSE]

NextLinks == CheckLinks

SpecLinks == InitLinks /\ [][NextLinks]_vars

(***************************************************************************)
(* Part 8: SpecScenario, analyze on a whole message, with the detector     *)
(* _check_official_from_free_email computed from the sender address, the   *)
(* display name and the subject (texts as token sequences).  The DNS       *)
(* checks and the other extractors take the outcomes of Part 2.            *)
(***************************************************************************)
\* suspicious_tlds.json: free_email_domains; known_brands.json: keywords.
free_email_domains == {<<"gmail", ".", "com">>}

brand_keywords == {<<"google">>}

\* The words and phrases of the two lists of the detector that the
\* enumerated messages can contain.
official_words == {<<"support">>, <<"help">>, <<"security">>, <<"alert">>, <<"team">>}

phishing_subjects == {<<"security", " ", "alert">>, <<"verify", " ", "now">>}

BrandInNameCaseSensitive(from_name) ==
  \E keyword \in brand_keywords : Contains(from_name, keyword)

\* keyword in from_name_lower, for some brand keyword.
BrandInName(from_name) ==
  \E keyword \in brand_keywords : Contains(Lower(from_name), keyword)

HasOfficialName(from_name) ==
  \E word \in official_words : Contains(Lower(from_name), word)

HasPhishingSubject(subject) ==
  \E subj \in phishing_subjects : Contains(Lower(subject), subj)

check_official_from_free_email(from_domain, from_name, subject) ==
  LET is_free_email == Lower(from_domain) \in free_email_domains
      brand == BrandInName(from_name)
      official == HasOfficialName(from_name) /\ ~brand
      phishing == HasPhishingSubject(subject)
      score == (IF brand THEN -100 ELSE 0) + (IF official THEN -50 ELSE 0)
                 + (IF phishing THEN -50 ELSE 0)
                 + (IF brand /\ phishing THEN -50 ELSE 0)
  IN IF ~is_free_email THEN CheckResult("official_from_free", INFO, 0)
     ELSE IF ~(brand \/ official \/ phishing) THEN CheckResult("official_from_free", INFO, 0)
     ELSE CheckResult("official_from_free", FAIL, Max(score, -150))

Messages ==
  [from_domain : {<<"gmail", ".", "com">>, <<"Gmail", ".", "com">>, <<"corp", ".", "com">>},
   from_name : {<<"Google", " ", "Support">>, <<"GOOGLE">>, <<"Help", " ", "Desk">>,
                <<"John", " ", "Smith">>},
   subject : {<<"Security", " ", "Alert">>, <<"hello">>},
   dns_found : BOOLEAN,
   findings : {{}, {"trigger_words", "headers"}},
   malformed : BOOLEAN]

\* The checks analyze appends for the message.
ScenarioChecks(msg) ==
  [i \in DOMAIN Pipeline |->
     LET name == Pipeline[i]
     IN IF name = "official_from_free"
        THEN check_official_from_free_email(msg.from_domain, msg.from_name, msg.subject)
        ELSE IF name \in DnsChecks
             THEN (IF msg.dns_found THEN DnsClean(name) ELSE DnsFinding(name))
        ELSE IF name \in msg.findings THEN FindingResult(name)
        ELSE CleanResult(name)]

\* analyze: the checks, the verdict and the return; a malformed field makes
\* an extractor raise and analyze returns nothing.
AnalyzeMessage ==
  /\ ~ret.done
  /\ ret' = IF arg.malformed
            THEN [done |-> TRUE, returned |-> FALSE, checks |-> <<>>,
                  verdict |-> NoVerdict]
            ELSE [done |-> TRUE, returned |-> TRUE, checks |-> ScenarioChecks(arg),
                  verdict |-> CalcScore(ScenarioChecks(arg), FALSE, FALSE)]
  /\ UNCHANGED <<arg, resultVars, analyzeVars, extraVars, workerVars, logVars, batchVars>>

InitScenario ==
  /\ NewResult /\ AnalyzeIdle /\ ExtraIdle /\ WorkersIdle /\ LogEmpty /\ BatchIdle
  /\ arg \in Messages
  /\ ret = [done |-> FALSE]

NextScenario == AnalyzeMessage

SpecScenario == InitScenario /\ [][NextScenario]_vars

(***************************************************************************)
(* Part 9: SpecDns, the DNSChecker methods check_spf, check_dkim,          *)
(* check_dmarc and check_mx, each called on a sender domain with whatever  *)
(* an earlier call for the same key left in the cache.                     *)
(* The input of a call is what resolver.resolve does for it: the record it *)
(* answers with, or the exception it raises (NXDOMAIN, NoAnswer, or a      *)
(* Timeout, which is none of the two).  check_dkim asks once per selector. *)
(* HAS_DNS is fixed when the module is imported.                           *)
(***************************************************************************)
DnsExceptions == {"NXDOMAIN", "NoAnswer", "Timeout"}

AutoSelectors == <<"default", "google", "selector1", "selector2", "dkim">>

\* What the resolver can do for one call of each method.
SpfOutcomes == {"-all", "~all", "?all", "no_spf_txt"} \cup DnsExceptions
DkimOutcomes ==
  UNION { [1..n -> {"key2048", "key1024", "no_dkim_txt", "NXDOMAIN", "Timeout"}] :
            n \in {1, Len(AutoSelectors)} }
DmarcOutcomes == {"reject", "quarantine", "none", "no_dmarc_txt"} \cup DnsExceptions
MxOutcomes == {"records", "empty"} \cup DnsExceptions

\* A method's return: the CheckResult and whether _cache.set was called.
Answer(check, stored) == [result |-> check, stored |-> stored]

NoLibrary(name) == Answer(CheckResult(name, ERROR, 0), FALSE)

check_spf(has_dns, outcome) ==
  IF ~has_dns THEN NoLibrary("spf")
  ELSE CASE outcome = "no_spf_txt" -> Answer(CheckResult("spf", WARN, -5), FALSE)
         [] outcome = "-all" -> Answer(CheckResult("spf", PASS, 5), TRUE)
         [] outcome = "~all" -> Answer(CheckResult("spf", PASS, 3), TRUE)
         [] outcome = "?all" -> Answer(CheckResult("spf", WARN, 0), TRUE)
         [] outcome = "NXDOMAIN" -> Answer(CheckResult("spf", FAIL, -10), TRUE)
         [] outcome = "NoAnswer" -> Answer(CheckResult("spf", WARN, -5), TRUE)
         [] OTHER -> Answer(CheckResult("spf", ERROR, 0), FALSE)

\* The selectors are tried in order; an exception or a TXT answer without a
\* DKIM record moves on to the next one.
check_dkim(has_dns, outcomes) ==
  LET keys == {i \in DOMAIN outcomes : outcomes[i] \in {"key2048", "key1024"}}
      first == CHOOSE i \in keys : \A j \in keys : i <= j
  IN IF ~has_dns THEN NoLibrary("dkim")
     ELSE IF keys = {} THEN Answer(CheckResult("dkim", WARN, -3), TRUE)
     ELSE IF outcomes[first] = "key2048" THEN Answer(CheckResult("dkim", PASS, 5), TRUE)
     ELSE Answer(CheckResult("dkim", PASS, 3), TRUE)

check_dmarc(has_dns, outcome) ==
  IF ~has_dns THEN NoLibrary("dmarc")
  ELSE CASE outcome = "reject" -> Answer(CheckResult("dmarc", PASS, 5), TRUE)
         [] outcome = "quarantine" -> Answer(CheckResult("dmarc", PASS, 4), TRUE)
         [] outcome = "none" -> Answer(CheckResult("dmarc", WARN, 1), TRUE)
         [] outcome \in {"no_dmarc_txt", "NXDOMAIN", "NoAnswer"} ->
              Answer(CheckResult("dmarc", WARN, -3), TRUE)
         [] OTHER -> Answer(CheckResult("dmarc", ERROR, 0), FALSE)

check_mx(has_dns, outcome) ==
  IF ~has_dns THEN NoLibrary("mx")
  ELSE CASE outcome = "records" -> Answer(CheckResult("mx", PASS, 2), TRUE)
         [] outcome = "empty" -> Answer(CheckResult("mx", WARN, -5), TRUE)
         [] OTHER -> Answer(CheckResult("mx", WARN, -3), TRUE)

DnsCalls ==
  [name : {"spf"}, outcome : SpfOutcomes] \cup [name : {"dkim"}, outcome : DkimOutcomes]
    \cup [name : {"dmarc"}, outcome : DmarcOutcomes] \cup [name : {"mx"}, outcome : MxOutcomes]

DnsAnswer(has_dns, call) ==
  CASE call.name = "spf" -> check_spf(has_dns, call.outcome)
    [] call.name = "dkim" -> check_dkim(has_dns, call.outcome)
    [] call.name = "dmarc" -> check_dmarc(has_dns, call.outcome)
    [] call.name = "mx" -> check_mx(has_dns, call.outcome)

\* f"dkim:{domain}:{selector or 'auto'}" for check_dkim, f"{name}:{domain}"
\* for the others; the sender domain is the same in every call here.
DnsKey(call) ==
  CacheKey(call.name,
           IF call.name = "dkim" THEN <<"a.example", Len(call.outcome)>> ELSE <<"a.example">>)

\* The results the methods store under each cache key.
StoredByKey ==
  [key \in {DnsKey(c) : c \in DnsCalls} |->
     {DnsAnswer(TRUE, c).result :
        c \in {c \in DnsCalls : DnsKey(c) = key /\ DnsAnswer(TRUE, c).stored}}]

\* What earlier calls of the same method for the same key can have left in
\* the cache: nothing, or one stored result.
PriorCaches(has_dns, call) ==
  {{}} \cup
  (IF has_dns
   THEN {{[key |-> DnsKey(call), value |-> v]} : v \in StoredByKey[DnsKey(call)]}
   ELSE {})

\* One call: without the library the method returns before the cache; a
\* live cache entry is returned as it is; otherwise (no entry, or an entry
\* older than the ttl, which get deletes) the resolver is asked.
DnsCheck ==
  LET key == DnsKey(arg.call)
      answer == DnsAnswer(arg.has_dns, arg.call)
  IN /\ ~ret.done
     /\ \/ /\ arg.has_dns /\ CacheHas(key)
           /\ ret' = [done |-> TRUE, result |-> CacheValue(key), from_cache |-> TRUE]
           /\ UNCHANGED dnsCache
        \/ /\ ret' = [done |-> TRUE, result |-> answer.result, from_cache |-> FALSE]
           /\ dnsCache' = IF answer.stored THEN CacheSet(key, answer.result)
                          ELSE IF arg.has_dns THEN CacheDrop(key) ELSE dnsCache
     /\ UNCHANGED <<arg, wmsg, wpc, wstep, wchecks, resultVars, analyzeVars, extraVars, logVars,
                    batchVars>>

InitDns ==
  /\ NewResult /\ AnalyzeIdle /\ ExtraIdle /\ LogEmpty /\ BatchIdle
  /\ wmsg = [w \in Workers |-> ""] /\ wpc = [w \in Workers |-> "idle"]
  /\ wstep = [w \in Workers |-> 0] /\ wchecks = [w \in Workers |-> <<>>]
  /\ arg \in [has_dns : BOOLEAN, call : DnsCalls]
  /\ dnsCache \in PriorCaches(arg.has_dns, arg.call)
  /\ ret = [done |-> FALSE]

NextDns == DnsCheck

SpecDns == InitDns /\ [][NextDns]_vars

(***************************************************************************)
(* Part 10: SpecAttachments, ContentAnalyzer.check_attachments called on   *)
(* the attachments of a message, with AnalysisData.is_dangerous_extension  *)
(* for each filename.  A filename is a sequence of tokens, "." being a     *)
(* token of its own, so that lower(), endswith() and os.path.splitext are  *)
(* computed.                                                               *)
(***************************************************************************)
\* dangerous_extensions.json, as loaded by AnalysisData._load_all.
double_extension_patterns == {<<".", "pdf", ".", "exe">>, <<".", "pdf", ".", "zip">>}
critical_extensions == {<<".", "exe">>}
macro_extensions == {<<".", "docm">>}
high_risk_extensions == {<<".", "zip">>}

\* os.path.splitext(filename)[1]: from the last dot on, unless that dot
\* only has dots before it.
SplitExt(filename) ==
  LET dots == {i \in DOMAIN filename : filename[i] = "."}
      last == CHOOSE i \in dots : \A j \in dots : j <= i
  IN IF dots = {} THEN <<>>
     ELSE IF \A j \in 1..(last - 1) : filename[j] = "." THEN <<>>
     ELSE SubSeq(filename, last, Len(filename))

ExtensionTier(ext) ==
  IF ext \in critical_extensions THEN [dangerous |-> TRUE, level |-> "critical"]
  ELSE IF ext \in macro_extensions THEN [dangerous |-> TRUE, level |-> "high"]
  ELSE IF ext \in high_risk_extensions THEN [dangerous |-> TRUE, level |-> "medium"]
  ELSE [dangerous |-> FALSE, level |-> "safe"]

is_dangerous_extension_tier_first(filename) == ExtensionTier(SplitExt(Lower(filename)))

is_dangerous_extension(filename) ==
  IF \E pattern \in double_extension_patterns : EndsWith(Lower(filename), pattern)
  THEN [dangerous |-> TRUE, level |-> "critical"]
  ELSE ExtensionTier(SplitExt(Lower(filename)))

check_attachments(attachments) ==
  LET found == [i \in DOMAIN attachments |-> is_dangerous_extension(attachments[i])]
      dangerous == {i \in DOMAIN found : found[i].dangerous /\ found[i].level = "critical"}
      warnings == {i \in DOMAIN found : found[i].dangerous /\ found[i].level # "critical"}
  IN IF attachments = <<>> THEN CheckResult("attachments", INFO, 0)
     ELSE IF dangerous # {} THEN CheckResult("attachments", FAIL, -30)
     ELSE IF warnings # {} THEN CheckResult("attachments", WARN, -5 * Cardinality(warnings))
     ELSE CheckResult("attachments", PASS, 0)

Extensions == {"pdf", "exe", "EXE", "docm", "zip", "txt"}

Filenames ==
  {<<"invoice">>, <<".", "exe">>, <<"invoice", ".">>}
    \cup {<<"invoice", ".", e>> : e \in Extensions}
    \cup {<<"invoice", ".", e1, ".", e2>> : e1 \in Extensions, e2 \in Extensions}

CheckAttachments ==
  /\ ~ret.done
  /\ ret' = [done |-> TRUE,
             files |-> [i \in DOMAIN arg |-> is_dangerous_extension(arg[i])],
             result |-> check_attachments(arg)]
  /\ UNCHANGED <<arg, resultVars, analyzeVars, extraVars, workerVars, logVars, batchVars>>

InitAttachments ==
  /\ NewResult /\ AnalyzeIdle /\ ExtraIdle /\ WorkersIdle /\ LogEmpty /\ BatchIdle
  /\ arg \in UNION {[1..n -> Filenames] : n \in 0..MaxAttachments}
  /\ ret = [done |-> FALSE]

NextAttachments == CheckAttachments

SpecAttachments == InitAttachments /\ [][NextAttachments]_vars

(***************************************************************************)
(* Part 11: SpecMove, IMAPClient.move_to_spam(uid) for one message of the  *)
(* selected folder, called under imap_lock.  Each IMAP command is a step;  *)
(* the server's answer to it (OK, NO, or an exception raised by imaplib)   *)
(* is the input of the step.  "Spam_cyrillic" stands for the Cyrillic      *)
(* folder name of the list.                                                *)
(***************************************************************************)
\* spam_folders, with the default spam_folder argument first.
spam_folders ==
  <<"Spam", "Spam", "Junk", "Spam_cyrillic", "[Gmail]/Spam", "INBOX.Spam",
    "&BCEEPwQwBDw-", "[Gmail]/&BCEEPwQwBDw-">>

\* _encode_folder_name: ASCII characters and "&" runs are kept, the
\* Cyrillic name becomes its modified UTF-7 form.
encode_folder_name(folder) ==
  IF folder = "Spam_cyrillic" THEN "&BCEEPwQwBDw-" ELSE folder

Responses == {"OK", "NO", "raise"}

CopyAcceptedAlways(status) == status # "raise"

\* if status == "OK"
CopyAccepted(status) == status = "OK"

\* except: continue, and return False after the last folder.
NextFolder ==
  IF move.folder = Len(spam_folders)
  THEN [move EXCEPT !.pc = "done", !.returned = FALSE]
  ELSE [move EXCEPT !.pc = "copy", !.folder = @ + 1]

\* if not self.connection: return False; otherwise the loop is entered.
MoveStart ==
  /\ move.pc = "idle"
  /\ \E connection \in BOOLEAN :
       move' = IF connection THEN [move EXCEPT !.pc = "copy", !.folder = 1]
               ELSE [move EXCEPT !.pc = "done", !.returned = FALSE]
  /\ UNCHANGED <<inbox, copied>>
  /\ UNCHANGED <<resultVars, analyzeVars, workerVars, logVars, batchVars, callVars,
                 cacheVars, runVars>>

\* status, _ = self.connection.uid('copy', uid, encoded_folder)
MoveCopy ==
  /\ move.pc = "copy"
  /\ \E status \in Responses :
       /\ copied' = IF status = "OK"
                    THEN copied \cup {encode_folder_name(spam_folders[move.folder])}
                    ELSE copied
       /\ move' = IF CopyAccepted(status) THEN [move EXCEPT !.pc = "store"] ELSE NextFolder
  /\ UNCHANGED inbox
  /\ UNCHANGED <<resultVars, analyzeVars, workerVars, logVars, batchVars, callVars,
                 cacheVars, runVars>>

\* self.connection.uid('store', uid, '+FLAGS', '\\Deleted'); the answer is
\* not looked at.
MoveStore ==
  /\ move.pc = "store"
  /\ \E status \in Responses :
       /\ inbox' = IF status = "OK" THEN "deleted" ELSE inbox
       /\ move' = IF status = "raise" THEN NextFolder ELSE [move EXCEPT !.pc = "expunge"]
  /\ UNCHANGED copied
  /\ UNCHANGED <<resultVars, analyzeVars, workerVars, logVars, batchVars, callVars,
                 cacheVars, runVars>>

\* self.connection.expunge(); return True
MoveExpunge ==
  /\ move.pc = "expunge"
  /\ \E status \in Responses :
       /\ inbox' = IF status = "OK" /\ inbox = "deleted" THEN "gone" ELSE inbox
       /\ move' = IF status = "raise" THEN NextFolder
                  ELSE [move EXCEPT !.pc = "done", !.returned = TRUE]
  /\ UNCHANGED copied
  /\ UNCHANGED <<resultVars, analyzeVars, workerVars, logVars, batchVars, callVars,
                 cacheVars, runVars>>

InitMove ==
  /\ NewResult /\ AnalyzeIdle /\ WorkersIdle /\ LogEmpty /\ BatchIdle /\ NoCall
  /\ ImapIdle /\ CacheIdle /\ RunIdle

NextMove == MoveStart \/ MoveCopy \/ MoveStore \/ MoveExpunge

SpecMove == InitMove /\ [][NextMove]_vars

(***************************************************************************)
(* Part 12: SpecCache, DNSChecker._cache used by two pool threads.  A      *)
(* thread calls get, set or clear; it first takes DNSCache.lock, runs the  *)
(* body of the method while holding it, and releases it on the way out.    *)
(* time.time() advances between any two steps.  The value a thread stores  *)
(* under a key is the result it built for that record kind and domain.     *)
(***************************************************************************)
\* DNSCache(ttl=300)
ttl == 300

CacheKinds == {"spf", "dmarc"}

IsFreshInclusive(timestamp) == clock - timestamp <= ttl

\* time.time() - timestamp < self.ttl
IsFresh(timestamp) == clock - timestamp < ttl

CacheThread(w, at, got) == [th EXCEPT ![w].pc = at, ![w].got = got]

\* A check method reaches self._cache.get / set, or clear is called.
CacheCall(w) ==
  /\ th[w].pc = "idle"
  /\ \E op \in {"get", "set", "clear"}, kind \in CacheKinds :
       th' = [th EXCEPT ![w] = [pc |-> "lock", op |-> op, kind |-> kind, got |-> None]]
  /\ UNCHANGED <<cache_lock, clock, dnsCache>>

\* with self.lock:
CacheAcquire(w) ==
  /\ th[w].pc = "lock" /\ cache_lock = "free"
  /\ cache_lock' = w
  /\ th' = CacheThread(w, "body", None)
  /\ UNCHANGED <<clock, dnsCache>>

\* The body of get: a fresh entry is returned, a stale one deleted.
CacheGetBody(w) ==
  LET key == CacheKey(th[w].kind, "a.example")
  IN /\ th[w].pc = "body" /\ th[w].op = "get"
     /\ IF CacheHas(key)
        THEN IF IsFresh(CacheValue(key).timestamp)
             THEN /\ th' = CacheThread(w, "release",
                                       [some |-> TRUE, value |-> CacheValue(key).value])
                  /\ UNCHANGED dnsCache
             ELSE /\ dnsCache' = CacheDrop(key)
                  /\ th' = CacheThread(w, "release", None)
        ELSE th' = CacheThread(w, "release", None) /\ UNCHANGED dnsCache
     /\ UNCHANGED <<cache_lock, clock>>

\* The body of set: self.cache[key] = (value, time.time())
CacheSetBody(w) ==
  /\ th[w].pc = "body" /\ th[w].op = "set"
  /\ dnsCache' = CacheSet(CacheKey(th[w].kind, "a.example"),
                          [value |-> [kind |-> th[w].kind, domain |-> "a.example"],
                           timestamp |-> clock])
  /\ th' = CacheThread(w, "release", None)
  /\ UNCHANGED <<cache_lock, clock>>

\* The body of clear: self.cache.clear()
CacheClearBody(w) ==
  /\ th[w].pc = "body" /\ th[w].op = "clear"
  /\ dnsCache' = {}
  /\ th' = CacheThread(w, "release", None)
  /\ UNCHANGED <<cache_lock, clock>>

\* Leaving the with block, and the method.
CacheRelease(w) ==
  /\ th[w].pc = "release" /\ cache_lock = w
  /\ cache_lock' = "free"
  /\ th' = [th EXCEPT ![w].pc = "idle"]
  /\ UNCHANGED <<clock, dnsCache>>

CacheTick ==
  /\ clock < MaxTicks * TickSeconds
  /\ clock' = clock + TickSeconds
  /\ UNCHANGED <<cache_lock, th, dnsCache>>

InitCache == NewResult /\ AnalyzeIdle /\ RestIdle

Call ==
  /\ \E w \in Workers : CacheCall(w)
  /\ UNCHANGED <<resultVars, analyzeVars, wmsg, wpc, wstep, wchecks, logVars, batchVars,
                 callVars, imapVars, runVars>>

Acquire ==
  /\ \E w \in Workers : CacheAcquire(w)
  /\ UNCHANGED <<resultVars, analyzeVars, wmsg, wpc, wstep, wchecks, logVars, batchVars,
                 callVars, imapVars, runVars>>

Body ==
  /\ \E w \in Workers : CacheGetBody(w) \/ CacheSetBody(w) \/ CacheClearBody(w)
  /\ UNCHANGED <<resultVars, analyzeVars, wmsg, wpc, wstep, wchecks, logVars, batchVars,
                 callVars, imapVars, runVars>>

Release ==
  /\ \E w \in Workers : CacheRelease(w)
  /\ UNCHANGED <<resultVars, analyzeVars, wmsg, wpc, wstep, wchecks, logVars, batchVars,
                 callVars, imapVars, runVars>>

Time ==
  /\ CacheTick
  /\ UNCHANGED <<resultVars, analyzeVars, wmsg, wpc, wstep, wchecks, logVars, batchVars,
                 callVars, imapVars, runVars>>

NextCache == Call \/ Acquire \/ Body \/ Release \/ Time

SpecCache == InitCache /\ [][NextCache]_vars

(***************************************************************************)
(* Part 13: SpecRun, the life of a batch check in gui/main_window.py.      *)
(* _start_check runs on the UI thread and starts one _check_worker thread; *)
(* the worker walks the enabled accounts, hands every unread message of an *)
(* account to process_email on a pool thread (the task steps of Part 5),   *)
(* leaves the with-block of the pool when all of them have returned, and   *)
(* at the end schedules _finish_check on the UI thread.  threads counts    *)
(* the worker threads that are alive.                                      *)
(***************************************************************************)
StartGuardNone == TRUE

\* if self.is_checking: return
StartGuard == ~is_checking

FreshTask(at) ==
  [pc |-> at, message_id |-> "", analyzed |-> FALSE,
   result |-> NoVerdict, move_to_spam |-> FALSE]

\* The for loop over accounts moves on, or is over.
NextAccount(r) ==
  IF r.account < r.accounts
  THEN [r EXCEPT !.account = r.account + 1, !.pc = "connect"]
  ELSE [r EXCEPT !.pc = "end"]

\* No process_email call is between its submit and its return.
TasksOver == \A uid \in Uids : batch[uid].pc \in {"idle", "done"}

\* _start_check with accounts enabled: the guard, is_checking = True and
\* the start of the worker thread.
StartCheck ==
  /\ StartGuard
  /\ threads < MaxThreads
  /\ \E n \in 1..MaxAccounts :
       run' = [pc |-> "logs", account |-> 1, accounts |-> n]
  /\ is_checking' = TRUE
  /\ threads' = threads + 1
  /\ UNCHANGED <<resultVars, analyzeVars, workerVars, logVars, batchVars, callVars, imapVars, cacheVars>>

\* checked_ids = set(log.message_id for log in existing_logs)
WorkerLogs ==
  /\ run.pc = "logs"
  /\ checked_ids' \in SUBSET (BatchIds \ {""})
  /\ batch' = [uid \in Uids |-> FreshTask("idle")]
  /\ run' = [run EXCEPT !.pc = "connect"]
  /\ UNCHANGED <<resultVars, analyzeVars, workerVars, logVars, callVars, imapVars, cacheVars, is_checking, threads>>

\* The account is left without a task: connect() returned not connected,
\* there is no unread message, or IMAPClient, connect or get_message_uids
\* raised and the except clause of the loop body printed it.
WorkerSkip ==
  /\ run.pc = "connect"
  /\ \E outcome \in {"not_connected", "no_uids", "raise"} :
       run' = NextAccount(run)
  /\ UNCHANGED <<resultVars, analyzeVars, workerVars, logVars, batchVars, callVars, imapVars, cacheVars, is_checking, threads>>

\* uids is not empty: the pool is entered and every uid is submitted.
WorkerSubmit ==
  /\ run.pc = "connect"
  /\ \E uids \in SUBSET Uids \ {{}} :
       batch' = [uid \in Uids |->
                   IF uid \in uids THEN FreshTask("fetch") ELSE FreshTask("idle")]
  /\ run' = [run EXCEPT !.pc = "pool"]
  /\ UNCHANGED <<resultVars, analyzeVars, workerVars, logVars, callVars, imapVars, cacheVars, checked_ids, is_checking, threads>>

\* The end of the with-block: as_completed has yielded every future and
\* the executor has shut down; client.disconnect(), which may raise into
\* the except clause of the loop body.
WorkerJoin ==
  /\ run.pc = "pool"
  /\ TasksOver
  /\ run' = NextAccount(run)
  /\ UNCHANGED <<resultVars, analyzeVars, workerVars, logVars, batchVars, callVars, imapVars, cacheVars, is_checking, threads>>

\* self.root.after(0, lambda: self._finish_check(...)), and the thread ends.
WorkerEnd ==
  /\ run.pc = "end"
  /\ run' = [run EXCEPT !.pc = "scheduled"]
  /\ threads' = threads - 1
  /\ UNCHANGED <<resultVars, analyzeVars, workerVars, logVars, batchVars, callVars, imapVars, cacheVars, is_checking>>

\* _finish_check on the UI thread.
FinishCheck ==
  /\ run.pc = "scheduled"
  /\ is_checking' = FALSE
  /\ run' = [run EXCEPT !.pc = "idle"]
  /\ UNCHANGED <<resultVars, analyzeVars, workerVars, logVars, batchVars, callVars, imapVars, cacheVars, threads>>

InitRun == NewResult /\ AnalyzeIdle /\ RestIdle

\* What the threads of a batch do once it has been started.
RunProgress ==
  \/ WorkerLogs \/ WorkerSkip \/ WorkerSubmit \/ WorkerJoin \/ WorkerEnd
  \/ FinishCheck
  \/ BatchFetch \/ BatchDedup \/ BatchAnalyze \/ BatchDisplay \/ BatchDecide

NextRun ==
  \/ StartCheck
  \/ WorkerLogs
  \/ WorkerSkip
  \/ WorkerSubmit
  \/ WorkerJoin
  \/ WorkerEnd
  \/ FinishCheck
  \/ BatchFetch
  \/ BatchDedup
  \/ BatchAnalyze
  \/ BatchDisplay
  \/ BatchDecide

SpecRun == InitRun /\ [][NextRun]_vars

\* The worker thread, the pool threads and the Tk event loop keep running:
\* a step of a started batch that can be taken is taken.  Pressing the
\* button is left to the user.
SpecRunLive == SpecRun /\ WF_vars(RunProgress)

(***************************************************************************)
(* Properties.                                                             *)
(***************************************************************************)
FailStatusCount == Cardinality({i \in DOMAIN checks : checks[i].status = FAIL})

WarnStatusCount == Cardinality({i \in DOMAIN checks : checks[i].status = WARN})

\* 10 plus the sum of the check scores, before any cap or clamp
RawScore == SumScores(checks, 1, StartScore)

Flagged == is_spam \/ is_phishing

\* C1: after calculate_score, whatever the check list, total_score lies in
\* [0.0, 10.0].
ScoreBounds == scored => (0 <= total_score /\ total_score <= 100)

\* C1 witness: an unflagged result whose raw sum is negative, scored to 0.0.
ScoreBoundsWitness ==
  scored /\ ~Flagged /\ RawScore < 0 /\ total_score = 0

HasVetoFail ==
  \E i \in DOMAIN checks :
    /\ checks[i].name \in {"unicode_spoofing", "official_from_free", "malicious_urls"}
    /\ checks[i].status = FAIL

\* C2: a FAIL of unicode_spoofing, official_from_free or malicious_urls
\* anywhere in the list makes calculate_score leave is_phishing and is_spam
\* true, total_score <= 1.0 and risk_level critical, whatever else is listed.
VetoForcesCritical ==
  (scored /\ HasVetoFail) =>
    (is_phishing /\ is_spam /\ total_score <= 10 /\ risk_level = "critical")

\* C2 witness: a scored fresh result with a veto FAIL and at least two PASS
\* checks of positive score, whose raw sum is above 1.0.
VetoForcesCriticalWitness ==
  /\ scored /\ fresh /\ HasVetoFail
  /\ Cardinality({i \in DOMAIN checks :
                    checks[i].status = PASS /\ checks[i].score > 0}) >= 2
  /\ RawScore > 10

\* C3: whenever calculate_score leaves is_spam or is_phishing true,
\* total_score <= 1.0 and risk_level is critical, however large the sum of
\* the scores.
FlaggedIsCapped ==
  (scored /\ Flagged) => (total_score <= 10 /\ risk_level = "critical")

\* C3 witness: a fresh result that its checks flag and whose raw sum exceeds 10.0.
FlaggedIsCappedWitness == scored /\ fresh /\ Flagged /\ RawScore > 100

\* C4: a call of calculate_score that follows another with no change of
\* checks in between leaves total_score, risk_level, is_spam and is_phishing
\* as the first call left them.
SecondCallChangesNothing ==
  [][(scored /\ calculate_score) => (Verdict' = Verdict)]_vars

\* C4 witness: calculate_score has run twice on the same non-empty list,
\* and the result is flagged.
SecondCallChangesNothingWitness == calls = 2 /\ Len(checks) >= 2 /\ Flagged

\* C5: the fields calculate_score leaves depend on the check list alone: they
\* are what a result built with the constructor defaults gets for that list.
VerdictDependsOnChecksOnly ==
  scored => (Verdict = CalcScore(checks, FALSE, FALSE))

\* C6: three FAILs, or two FAILs with three WARNs, or five WARNs with no
\* FAIL make calculate_score leave is_spam true, whatever the names.
CombinationSetsSpam ==
  (/\ scored
   /\ \/ FailStatusCount >= 3
      \/ (FailStatusCount >= 2 /\ WarnStatusCount >= 3)
      \/ (WarnStatusCount >= 5 /\ FailStatusCount = 0))
  => is_spam

\* C6 witness: a fresh result flagged as spam by five WARNs alone: no FAIL
\* and no check that a per-check rule flags.
CombinationSetsSpamWitness ==
  /\ scored /\ fresh /\ is_spam
  /\ WarnStatusCount >= 5 /\ FailStatusCount = 0
  /\ \A i \in DOMAIN checks : ~SetsSpam(checks[i])

\* C7: risk_level is critical when is_phishing or is_spam; otherwise safe
\* from 8.0, low from 6.0, medium from 4.0, high from 2.0 and critical
\* below; it is always one of the five tiers.
RiskLevelFollowsScore ==
  scored =>
    /\ risk_level \in {"safe", "low", "medium", "high", "critical"}
    /\ Flagged => risk_level = "critical"
    /\ ~Flagged =>
         /\ (total_score >= 80) => risk_level = "safe"
         /\ (total_score >= 60 /\ total_score < 80) => risk_level = "low"
         /\ (total_score >= 40 /\ total_score < 60) => risk_level = "medium"
         /\ (total_score >= 20 /\ total_score < 40) => risk_level = "high"
         /\ (total_score < 20) => risk_level = "critical"

\* C7 witness: an unflagged result scored exactly 2.0, tier high.
RiskLevelFollowsScoreWitness ==
  scored /\ ~Flagged /\ total_score = 20 /\ risk_level = "high"

NotError(check) == check.status # ERROR

\* C8: removing every ERROR-status check from the list leaves the fields
\* calculate_score computes unchanged, whatever the ERROR checks' names and
\* scores.
ErrorChecksAreNeutral ==
  (scored /\ fresh) => (Verdict = CalcScore(SelectSeq(checks, NotError), FALSE, FALSE))

\* C9: when an extractor raises during analyze, analyze still returns a
\* scored AnalysisResult, with an ERROR check in that extractor's place.
ExtractorExceptionTolerated ==
  (pc = "done" /\ raised \in CanRaise) =>
    /\ returned = "result"
    /\ scored
    /\ \E i \in DOMAIN checks : checks[i].name = raised /\ checks[i].status = ERROR

\* C10: when save fails at the end of analyze, the caller of analyze still
\* obtains the scored AnalysisResult.
SaveFailureKeepsResult ==
  (pc = "done" /\ raised = "save") => (returned = "result" /\ scored)

\* The order of the extractor catalogue after the four DNS checks, as the
\* catalogue table lists it.
CatalogueOrder ==
  <<"trigger_words", "urls_advanced", "attachments", "html_content",
    "brand_impersonation", "headers", "sender", "low_context",
    "suspicious_subject", "link_spoofing", "suspicious_domains", "reply_to",
    "envelope_sender", "received_chain", "originating_ip",
    "unicode_spoofing", "official_from_free", "auth_results", "malicious_urls">>

NotDnsCheck(check) == check.name \notin DnsChecks

CheckNames(cs) == [i \in DOMAIN cs |-> cs[i].name]

\* C11: the result analyze returns holds, after the DNS checks, the other
\* extractors' results in the catalogue order (trigger_words first,
\* envelope_sender, received_chain, originating_ip after reply_to).
ChecksInCatalogueOrder ==
  (pc = "done" /\ returned = "result") =>
    CheckNames(SelectSeq(checks, NotDnsCheck)) = CatalogueOrder

\* The check names analyze appends for a message with that sender domain.
ExpectedNames(domain) ==
  IF domain # "" THEN Pipeline ELSE SubSeq(Pipeline, 5, Len(Pipeline))

\* C12: whatever the interleaving with the other thread's analysis, a
\* finished analysis holds the four DNS checks first, in order, exactly when
\* the message has a sender domain, then every other check once; its DNS
\* checks are about its own sender domain and its other checks about its own
\* message.
WorkerChecksFixed ==
  \A w \in Workers :
    wpc[w] = "done" =>
      /\ CheckNames(wchecks[w]) = ExpectedNames(wmsg[w])
      /\ \A i \in DOMAIN wchecks[w] :
           wchecks[w][i].about =
             IF wchecks[w][i].name \in DnsChecks THEN wmsg[w] ELSE w

\* Both threads finished messages of one sender domain, and one of them was
\* handed a DNS check object out of the shared cache.
WorkerChecksFixedWitness ==
  /\ \A w \in Workers : wpc[w] = "done" /\ wmsg[w] = "a.example"
  /\ \E w \in Workers : \E i \in DOMAIN wchecks[w] : wchecks[w][i].cached

\* The files a load_all call could read: those of the directories it scans
\* that json.load accepts.
Readable == {f \in LoadScope(load.email_account) : f.ok}

\* The entries a complete scan keeps: one per non-empty message_id, one per
\* file without a message_id.
DistinctEntries ==
  Cardinality({f.message_id : f \in {g \in Readable : g.message_id # <<>>}})
    + Cardinality({f \in Readable : f.message_id = <<>>})

\* C13: load_all returns readable files newest first by modification time,
\* at most one per non-empty message_id and that one as recent as any file
\* of the id, at most limit entries; skipped duplicates do not use up the
\* limit, so the list is as long as the limit and the distinct entries allow.
LoadAllNewestFirstDeduped ==
  load.done =>
    LET r == load.results
    IN /\ Len(r) <= load.limit
       /\ Len(r) = Min(load.limit, DistinctEntries)
       /\ \A i \in DOMAIN r : r[i] \in Readable
       /\ \A i, j \in DOMAIN r :
            i < j => /\ r[i].mtime >= r[j].mtime
                     /\ r[i].message_id # <<>> => r[i].message_id # r[j].message_id
       /\ \A i \in DOMAIN r : \A f \in Readable :
            (r[i].message_id # <<>> /\ f.message_id = r[i].message_id)
              => f.mtime <= r[i].mtime

\* A scan of every account with limit 2 over three readable files returned
\* two entries, having met and skipped an older duplicate before the second.
LoadAllNewestFirstDedupedWitness ==
  /\ load.done /\ load.email_account = <<>> /\ load.limit = 2
  /\ Cardinality(Readable) = 3
  /\ Len(load.results) = 2
  /\ \E f \in Readable :
       /\ f.message_id = load.results[1].message_id
       /\ f.mtime < load.results[1].mtime
       /\ FileBefore(f, load.results[2])

\* C14: results are told apart by (message_id, email_account): a scan of
\* every account that did not stop at the limit returns an entry for every
\* readable file's message_id and account.
DedupKeyIsPair ==
  (load.done /\ load.email_account = <<>> /\ Len(load.results) < load.limit) =>
    \A f \in Readable : \E i \in DOMAIN load.results :
      /\ load.results[i].message_id = f.message_id
      /\ load.results[i].email_account = f.email_account

\* C15: results with distinct message_ids saved for one account go to
\* different files, so every result save was called for is still on disk.
SavedResultsKept ==
  \A r \in saved : \E f \in files : f.email_account = r[1] /\ f.message_id = r[2]

\* C16: move_to_spam is requested for a uid only after analyze returned a
\* result for it that is spam, phishing or critical, and once process_email
\* is over it has been requested for every uid with such a result.
MoveToSpamIffFlagged ==
  \A uid \in Uids :
    LET b == batch[uid]
        flagged == b.result.is_spam \/ b.result.is_phishing
                     \/ b.result.risk_level = "critical"
    IN /\ b.move_to_spam => (b.analyzed /\ flagged)
       /\ (b.pc = "done" /\ b.analyzed) => (b.move_to_spam <=> flagged)

\* One uid's message was phishing only and was moved, the other's was
\* analysed, found unflagged and left in place.
MoveToSpamIffFlaggedWitness ==
  /\ \A uid \in Uids : batch[uid].pc = "done" /\ batch[uid].analyzed
  /\ \E uid \in Uids :
       /\ batch[uid].move_to_spam
       /\ batch[uid].result.is_phishing /\ ~batch[uid].result.is_spam
  /\ \E uid \in Uids :
       /\ ~batch[uid].move_to_spam
       /\ batch[uid].result.risk_level = "low"

\* The host is a brand-owned domain or a subdomain of one.
BrandHost(host) ==
  \E D \in brand_domains : Lower(host) = D \/ EndsWith(Lower(host), <<".">> \o D)

\* C17: when every URL of the body points at a brand-owned domain or a
\* subdomain of one, urls_advanced and suspicious_domains report no issue
\* and no penalty, and is_suspicious_domain clears each of the hosts.
BrandDomainsNeverFlagged ==
  (ret.done /\ arg.urls # {} /\ \A url \in arg.urls : BrandHost(url.host)) =>
    /\ ret.urls_advanced.issues = 0 /\ ret.urls_advanced.score >= 0
    /\ ret.suspicious_domains.issues = 0 /\ ret.suspicious_domains.score >= 0
    /\ \A url \in arg.urls : ~is_suspicious_domain(url.host).suspicious

\* A host without a leading "www.", in lower case.
SiteOf(host) ==
  IF Len(host) >= 2 /\ Lower(host)[1] = "www" /\ host[2] = "."
  THEN SubSeq(Lower(host), 3, Len(host)) ELSE Lower(host)

\* The anchor displays an http(s) URL whose domain is not the href's (a
\* leading "www." apart).
DisplaysOtherDomain(a) ==
  a.text_host # <<>> /\ a.href_protocol /\ SiteOf(a.text_host) # SiteOf(a.href_host)

\* C18: when the HTML holds an anchor that displays an http(s) URL of a
\* domain other than its href's, link_spoofing is FAIL, its details name the
\* displayed and the target domain, and the verdict is phishing.
SpoofedAnchorFails ==
  \A a \in (IF ret.done THEN arg.html ELSE {}) :
    DisplaysOtherDomain(a) =>
      /\ ret.link_spoofing.status = FAIL
      /\ <<SiteOf(a.text_host), SiteOf(a.href_host)>> \in ret.link_spoofing.named
      /\ ret.verdict.is_phishing

\* The message comes from a free-mail domain and carries a brand keyword or
\* an official-sounding word in the display name, or a phishing phrase in
\* the subject.
OfficialFromFreeCase(msg) ==
  /\ Lower(msg.from_domain) \in free_email_domains
  /\ \/ \E k \in brand_keywords \cup official_words : Contains(Lower(msg.from_name), k)
     \/ \E p \in phishing_subjects : Contains(Lower(msg.subject), p)

\* C19: for such a message the result analyze returns is phishing and
\* critical, whatever the DNS checks found and however many other checks
\* passed.
FreeMailImpersonationIsPhishing ==
  (ret.done /\ ret.returned /\ OfficialFromFreeCase(arg)) =>
    (ret.verdict.is_phishing /\ ret.verdict.risk_level = "critical")

\* An official-sounding name alone, from a free-mail address, every DNS
\* record in place and every other extractor clean: the checks sum to a
\* score of the low tier and the verdict is phishing and critical.
FreeMailImpersonationIsPhishingWitness ==
  /\ ret.done /\ ret.returned
  /\ arg.from_name = <<"Help", " ", "Desk">> /\ arg.subject = <<"hello">>
  /\ Lower(arg.from_domain) \in free_email_domains
  /\ arg.dns_found /\ arg.findings = {}
  /\ SumScores(ret.checks, 1, StartScore) >= LowScore
  /\ ret.verdict.is_phishing /\ ret.verdict.risk_level = "critical"

\* The phishing-grade check names.
PhishingGrade ==
  {"brand_impersonation", "suspicious_links", "urls_advanced", "credential_harvesting",
   "link_spoofing", "suspicious_subject", "envelope_sender", "reply_to",
   "suspicious_domains", "unicode_spoofing", "official_from_free", "malicious_urls"}

\* C20: on a fresh result, calculate_score sets is_phishing exactly when
\* some check with a phishing-grade name has status FAIL or a score of -2.0
\* or less; checks with other names never set it.
PhishingExactly ==
  (scored /\ fresh) =>
    (is_phishing <=>
       \E i \in DOMAIN checks :
         /\ checks[i].name \in PhishingGrade
         /\ checks[i].status = FAIL \/ checks[i].score <= -20)

\* A fresh result is phishing through a phishing-grade WARN of exactly -2.0,
\* with no phishing-grade FAIL, next to a FAIL of another name.
PhishingExactlyWitness ==
  /\ scored /\ fresh /\ is_phishing
  /\ \A i \in DOMAIN checks :
       checks[i].name \in PhishingGrade => checks[i].status # FAIL
  /\ \E i \in DOMAIN checks : checks[i].name = "link_spoofing" /\ checks[i].score = -20
  /\ \E i \in DOMAIN checks : checks[i].name = "headers"

\* The names with a per-check spam rule of their own.
SpamTableNames ==
  {"attachments", "html_content", "low_context", "received_chain",
   "unicode_spoofing", "official_from_free", "malicious_urls"}

\* C21: on a fresh result whose only FAIL is check i: named attachments or
\* html_content it sets is_spam exactly when its score is -2.0 or less; of
\* a name outside every spam table it does not set is_spam.  A FAIL named
\* low_context or received_chain sets is_spam whatever else is in the list.
PerCheckSpamRules ==
  (scored /\ fresh) =>
    /\ \A i \in DOMAIN checks :
         (checks[i].status = FAIL /\ FailStatusCount = 1) =>
           /\ checks[i].name \in {"attachments", "html_content"} =>
                (is_spam <=> checks[i].score <= -20)
           /\ checks[i].name \notin SpamTableNames => ~is_spam
    /\ (\E i \in DOMAIN checks :
          checks[i].name \in {"low_context", "received_chain"} /\ checks[i].status = FAIL)
         => is_spam

\* A fresh result whose only FAIL is an attachments check above -2.0, next
\* to warnings, scored and not spam.
PerCheckSpamRulesWitness ==
  /\ scored /\ fresh /\ ~is_spam
  /\ FailStatusCount = 1 /\ WarnStatusCount >= 1
  /\ \E i \in DOMAIN checks :
       checks[i] = CheckResult("attachments", FAIL, -15)

\* The verdict calculate_score gives a fresh result holding the checks cs.
FreshVerdict(cs) == CalcScore(cs, FALSE, FALSE)

\* C26: if a fresh result with the checks L is spam, a fresh result with L
\* and one more FAIL check (of any name) is spam too, and an extra FAIL never
\* turns the critical tier into a milder one.
ExtraFailureKeepsSpam ==
  (scored /\ fresh) =>
    \A check \in {c \in CheckUniverse \cup SpamUniverse : c.status = FAIL} :
      LET more == FreshVerdict(Append(checks, check))
      IN /\ is_spam => more.is_spam
         /\ risk_level = "critical" => more.risk_level = "critical"

\* No FAIL, fewer than five WARNs, no phishing-grade score of -2.0 or less.
NothingDetected ==
  /\ FailStatusCount = 0
  /\ WarnStatusCount < 5
  /\ \A i \in DOMAIN checks :
       checks[i].name \in PhishingGrade => checks[i].score > -20

\* C27: on a fresh result with nothing detected, calculate_score leaves
\* is_spam and is_phishing false, total_score is 10 plus the sum of the
\* check scores clamped to [0, 10], and risk_level follows the score
\* thresholds 8, 6, 4, 2 alone.
NoSpuriousDetection ==
  (scored /\ fresh /\ NothingDetected) =>
    /\ ~is_spam /\ ~is_phishing
    /\ total_score = Max(0, Min(100, RawScore))
    /\ risk_level = IF total_score >= 80 THEN "safe"
                    ELSE IF total_score >= 60 THEN "low"
                    ELSE IF total_score >= 40 THEN "medium"
                    ELSE IF total_score >= 20 THEN "high"
                    ELSE "critical"

\* Nothing detected with the raw sum above 10, clamped to 10 and safe.
NoSpuriousDetectionWitness ==
  /\ scored /\ fresh /\ NothingDetected
  /\ WarnStatusCount >= 1 /\ RawScore > 100
  /\ total_score = 100 /\ risk_level = "safe"

\* The resolver could not be asked: every lookup of the call timed out.
LookupFailed(call) ==
  IF call.name = "dkim" THEN \A i \in DOMAIN call.outcome : call.outcome[i] = "Timeout"
  ELSE call.outcome = "Timeout"

\* The lookup of the call succeeded and there is no record of its kind.
RecordAbsent(call) ==
  CASE call.name = "spf" -> [call EXCEPT !.outcome = "no_spf_txt"]
    [] call.name = "dkim" -> [call EXCEPT !.outcome = [i \in DOMAIN @ |-> "no_dkim_txt"]]
    [] call.name = "dmarc" -> [call EXCEPT !.outcome = "no_dmarc_txt"]
    [] call.name = "mx" -> [call EXCEPT !.outcome = "empty"]

\* C23: for spf, dkim, dmarc and mx, a failed lookup returns a CheckResult
\* whose status differs from the record-absent one, and leaves nothing in
\* the cache under the call's key.
UnavailableIsDistinct ==
  (ret.done /\ arg.has_dns /\ ~ret.from_cache /\ LookupFailed(arg.call)) =>
    /\ ret.result.status # DnsAnswer(TRUE, RecordAbsent(arg.call)).result.status
    /\ ~CacheHas(DnsKey(arg.call))

\* C24: check_spf gives FAIL on NXDOMAIN, WARN on a timeout or a no-answer,
\* and ERROR with score 0 without the resolver library.
SpfOutcomeStatuses ==
  (ret.done /\ arg.call.name = "spf" /\ ~ret.from_cache) =>
    IF ~arg.has_dns THEN ret.result.status = ERROR /\ ret.result.score = 0
    ELSE /\ arg.call.outcome = "NXDOMAIN" => ret.result.status = FAIL
         /\ arg.call.outcome \in {"Timeout", "NoAnswer"} => ret.result.status = WARN

\* process_email for the uid has called analyze (it may not have returned).
AnalyzeInvoked(uid) ==
  batch[uid].pc \in {"analyze", "display", "decide"} \/ batch[uid].analyzed

\* C28: under every interleaving of the pool threads, no two uids for which
\* analyze was invoked carry the same message_id; a thread goes on to
\* analyze only in the step that finds its message_id absent from
\* checked_ids and inserts it; and checked_ids, which starts as the ids of
\* the loaded log, never loses an id.
AnalyzeOncePerMessageId ==
  /\ [](\A u1, u2 \in Uids :
          (u1 # u2 /\ AnalyzeInvoked(u1) /\ AnalyzeInvoked(u2))
            => batch[u1].message_id # batch[u2].message_id)
  /\ [][/\ checked_ids \subseteq checked_ids'
        /\ \A uid \in Uids :
             (batch[uid].pc # "analyze" /\ batch'[uid].pc = "analyze") =>
               /\ batch[uid].pc = "dedup"
               /\ batch[uid].message_id \notin checked_ids
               /\ batch[uid].message_id \in checked_ids']_vars

\* Two uids fetched the same message: one was analysed, the other ended at
\* the duplicate test.
AnalyzeOncePerMessageIdWitness ==
  \E u1, u2 \in Uids :
       /\ u1 # u2 /\ batch[u1].message_id = "m2" /\ batch[u2].message_id = "m2"
       /\ batch[u1].analyzed /\ batch[u1].pc = "done"
       /\ batch[u2].pc = "done" /\ ~batch[u2].analyzed

\* The lower-cased filename ends with a double-extension pattern.
DoubleExtension(filename) ==
  \E pattern \in double_extension_patterns : EndsWith(Lower(filename), pattern)

\* C25: a filename with a double extension is critical whatever tier its
\* last extension is in; otherwise a critical-tier extension is critical,
\* otherwise a macro extension is high, otherwise a high-risk extension is
\* medium, otherwise the file is safe and not dangerous; and
\* check_attachments returns FAIL exactly when some attachment is critical.
ExtensionPriority ==
  ret.done =>
    /\ \A i \in DOMAIN arg :
         LET ext == SplitExt(Lower(arg[i]))
             level == ret.files[i].level
         IN /\ DoubleExtension(arg[i]) => level = "critical"
            /\ ext \in critical_extensions => level = "critical"
            /\ level = "high" <=>
                 (ext \in macro_extensions /\ ext \notin critical_extensions
                    /\ ~DoubleExtension(arg[i]))
            /\ level = "medium" <=>
                 (ext \in high_risk_extensions /\ ext \notin macro_extensions
                    /\ ext \notin critical_extensions /\ ~DoubleExtension(arg[i]))
            /\ level = "safe" <=> ~ret.files[i].dangerous
            /\ ret.files[i].dangerous <=>
                 (DoubleExtension(arg[i])
                    \/ ext \in critical_extensions \cup macro_extensions
                                 \cup high_risk_extensions)
    /\ ret.result.status = FAIL <=> \E i \in DOMAIN arg : ret.files[i].level = "critical"

\* A double extension ending in a high-risk extension was reported critical
\* next to a macro file, and the check failed.
ExtensionPriorityWitness ==
  /\ ret.done /\ ret.result.status = FAIL
  /\ \E i \in DOMAIN arg :
       /\ arg[i] = <<"invoice", ".", "pdf", ".", "zip">>
       /\ ret.files[i].level = "critical"
  /\ \E i \in DOMAIN arg : ret.files[i].level = "high"

\* The spam folders the call has tried so far, as the server names them.
TriedFolders == {encode_folder_name(spam_folders[i]) : i \in 1..move.folder}

\* C30: the message is flagged \Deleted or expunged only once a spam folder
\* holds a copy; move_to_spam returns true only then, the copy being in
\* the folder tried last; with no copy accepted (or no connection) the
\* message stays as it was and the call returns false; and the folders are
\* tried in list order, one after the other, nothing being tried after
\* the return.
MoveNeverLoses ==
  /\ [](/\ inbox # "present" => copied # {}
        /\ move.returned =>
             /\ move.pc = "done"
             /\ encode_folder_name(spam_folders[move.folder]) \in copied
        /\ (move.pc = "done" /\ copied = {}) => (inbox = "present" /\ ~move.returned)
        /\ copied \subseteq TriedFolders)
  /\ [][/\ move'.folder \in {move.folder, move.folder + 1}
        /\ move.pc = "done" => UNCHANGED <<inbox, copied, move>>]_vars

\* The first folders refused the copy, a later one took it, and the
\* message was flagged, expunged and reported moved.
MoveNeverLosesWitness ==
  /\ move.pc = "done" /\ move.returned /\ inbox = "gone"
  /\ move.folder = 3 /\ copied = {"Junk"}

\* The entry the cache holds for the key a thread is asking for.
AskedEntry(w) == CHOOSE e \in dnsCache : e.key = <<th[w].kind, "a.example">>

\* C22: a thread is inside a method body only while it holds the lock, and
\* the map changes only in a step of the lock holder; get returns a value
\* only if the map holds it under the asked record kind and domain with a
\* timestamp less than 300 s old, and then it was stored for that kind and
\* domain; otherwise get returns None, and a stale entry is gone from the
\* map afterwards.
CacheFreshAndKeyed ==
  /\ [](\A w \in Workers : th[w].pc \in {"body", "release"} => cache_lock = w)
  /\ [][/\ dnsCache' # dnsCache =>
             /\ cache_lock \in Workers /\ cache_lock' = cache_lock
             /\ th[cache_lock].pc = "body" /\ th'[cache_lock].pc = "release"
        /\ \A w \in Workers :
             (th[w].pc = "body" /\ th[w].op = "get" /\ th'[w].pc = "release") =>
               LET asked == \E e \in dnsCache : e.key = <<th[w].kind, "a.example">>
               IN IF th'[w].got.some
                  THEN /\ asked
                       /\ th'[w].got.value = AskedEntry(w).value.value
                       /\ th'[w].got.value.kind = th[w].kind
                       /\ clock - AskedEntry(w).value.timestamp < 300
                       /\ dnsCache' = dnsCache
                  ELSE /\ asked => clock - AskedEntry(w).value.timestamp >= 300
                       /\ ~\E e \in dnsCache' : e.key = <<th[w].kind, "a.example">>]_vars

\* One thread's get found its entry exactly 300 s old and removed it, about
\* to return None, while the other thread waits for the lock and the entry
\* of the other record kind stays.
CacheFreshAndKeyedWitness ==
  \E w1, w2 \in Workers :
    /\ th[w1].pc = "release" /\ th[w1].op = "get" /\ ~th[w1].got.some
    /\ clock = 300
    /\ th[w2].pc = "lock"
    /\ \E e \in dnsCache : e.key[1] # th[w1].kind /\ e.value.timestamp = 0
    /\ ~\E e \in dnsCache : e.key[1] = th[w1].kind

\* A batch has been started and is not over.
BatchRunning == is_checking

====
